---- MODULE Spec2Model ----
(***************************************************************************)
(* Model of the SSO credential replay system:                              *)
(*   - the Vault Service (vault-service/src/routes/vault.js) over its      *)
(*     Postgres tables vault_credentials and audit_log,                    *)
(*   - the Primary Identity service (primary-identity/app.js, db.js):      *)
(*     session, plugin tokens, delegated credential API,                   *)
(*   - the extension's background script (sso-extension/background.js).    *)
(***************************************************************************)
EXTENDS Integers, Sequences, FiniteSets, TLC

(***************************************************************************)
(* Bounds of the model.                                                    *)
(***************************************************************************)
\* requests the Vault Service handles in one run, with two clients at once
MaxReqs == 2
\* requests the Vault Service handles in one run, with one client
MaxSeqReqs == 3
\* ticks of the clock of the database
MaxDbTime == 2
\* requests of the client that runs the verification script
MaxScriptReqs == 6
\* createUser and deleteUser calls in one run
MaxUserOps == 3
\* starts of the Primary Identity process in one run
MaxBoots == 2

(***************************************************************************)
(* Inputs of the Vault Service.                                            *)
(***************************************************************************)
VaultIds == {"v1", "v2"}
AppIds == {"app_a", "app_b"}
Keys == VaultIds \X AppIds
Procs == {"r1", "r2"}
NewPasswords == {"p2", "p3"}

\* credential objects as they arrive in a request body (JSON objects)
FieldMaps ==
    { [username |-> "u", password |-> "p"],
      [username |-> "u", role |-> "admin"],
      [username |-> "u", password |-> "p", role |-> "admin"] }

VARIABLES
    vault_credentials,  \* table: key -> <<>> (no row) or <<jsonb>>
    audit_log,          \* table: sequence of rows [vault_id, app_id, action]
    rowLock,            \* key -> "" or the request whose transaction locks the row
    vreq,               \* request slot -> the request being handled
    vpc,                \* request slot -> position in the handler
    vloc,               \* request slot -> the handler's local variables
    vres,               \* request slot -> the response sent
    vgh,                \* history: request slot -> what the request saw and did
    hist,               \* history: key -> last committed operation on the key
    okLog,              \* history: one entry per success response, in order
    dbNow,              \* the clock of the database server
    updated_at,         \* column updated_at: key -> the timestamp of the row
                        \* (0 while the key has no row)
    txStart,            \* request slot -> the start time of its transaction,
                        \* which is what NOW() returns inside the transaction
    budget              \* requests the run may still accept

vaultVars == <<vault_credentials, audit_log, rowLock, vreq, vpc, vloc, vres,
               vgh, hist, okLog, dbNow, updated_at, txStart, budget>>

VARIABLES
    session,            \* PID_SESSION of the browser: the user logged in, or NoUser
    plugin_tokens,      \* table: set of rows [token, user_id, expires_at]
    user_apps,          \* table: set of <<user, appId>>
    pid_credentials,    \* table vault_credentials of Primary Identity:
                        \* <<user, appId>> -> <<>> or <<row>>
    now,                \* the clock, in seconds
    issuedTo,           \* history: token -> the user whose bootstrap created it
    owned,              \* history: <<user, appId>> -> what was last stored with a
                        \* token of that user (or by the seed)
    pcall,              \* history: the delegated call the last step handled
                        \* and its response
    pidBudget           \* bootstrap, admin and delegated requests the run may
                        \* still make

pidVars == <<session, plugin_tokens, user_apps, pid_credentials, now, issuedTo,
             owned, pcall, pidBudget>>

VARIABLES
    state,              \* the background script's state object
    bpc,                \* handler -> position of the message handler
    bmsg,               \* handler -> the message being handled
    bnet,               \* handler -> the fetch in flight or its response
    bout,               \* the reply the last step passed to sendResponse, with
                        \* the message it answers and the handler's history
    btrack,             \* history: handler -> what the handler found when
                        \* ensureReady returned true
    prevUser,           \* history: the user replaced at the last user switch
                        \* bootstrap() detected
    bgBudget            \* messages the run may still deliver

bgVars == <<state, bpc, bmsg, bnet, bout, btrack, prevUser, bgBudget>>

VARIABLES
    users,              \* table users of Primary Identity: the usernames present
    seedPending,        \* apps whose seed write to the Vault Service was sent by
                        \* seedDatabase and has not been executed yet
    del,                \* the deleteUser call: its position, the user, the
                        \* vault_id, the vault request slot and the result
    delBudget           \* deleteUser calls the run may still make

delVars == <<users, seedPending, del, delBudget>>

VARIABLES
    vc,                 \* the vaultClient call: its position, the payload, the
                        \* requests sent, what fetch gave and the result
    vcBudget            \* vaultClient calls the run may still make

vcVars == <<vc, vcBudget>>

VARIABLES
    sessionStorage,     \* window.sessionStorage: the storage area of the tab for
                        \* the origin of the document: key -> stored item
    areas,              \* origin -> the storage area of the tab for that origin
                        \* (with its histories) while another origin is shown
    page,               \* the document loaded in the tab: its origin and which
                        \* forms it shows
    ppc,                \* position of the content script in main and its callbacks
    listener,           \* the submit listener the content script attached
    loginForm,          \* the values of the fields of the login form when the
                        \* user submitted it in learning mode
    currentLoginSchema, \* variable currentLoginSchema of the content script
    response,           \* the response to getCredentials the callback works on
    pout,               \* the message the content script sent last in this step
    decision,           \* what the user answered to the prompt or the confirm
                        \* dialog of this page load
    forwards,           \* history: key -> times the stored capture was forwarded
    failedCapture,      \* history: the stored login capture was followed by a page
                        \* load that still showed the login form
    prevReplay,         \* history: the previous page load ended with the content
                        \* script submitting the login form
    pwdChecks,          \* history: page loads whose checkPasswordChangeSuccess
                        \* found the stored password change capture
    loads               \* page loads the run may still make

pageVars == <<sessionStorage, areas, page, ppc, listener, loginForm, currentLoginSchema, response,
              pout, decision, forwards, failedCapture, prevReplay, pwdChecks, loads>>

VARIABLES
    db,                 \* the sql.js database in the memory of the running process:
                        \* table users and the sqlite_sequence entry of users
    dbFile,             \* database.sqlite, the image saveDatabase wrote last
    ever,               \* history: every (identity, vault_id) pair a row ever held
    born,               \* history: identities created so far
    boots,              \* runs of initDatabase so far
    idOps               \* createUser and deleteUser calls so far

idVars == <<db, dbFile, ever, born, boots, idOps>>

VARIABLES
    received            \* history: the request the Vault Service received last,
                        \* as it arrived

valVars == <<received>>

vars == <<vaultVars, pidVars, bgVars, delVars, vcVars, pageVars, idVars, valVars>>

\* a step of one service leaves the others as they are
VaultOnly == UNCHANGED <<pidVars, bgVars, delVars, vcVars, pageVars, idVars, valVars>>
PidOnly == UNCHANGED <<vaultVars, bgVars, delVars, vcVars, pageVars, idVars, valVars>>
BgOnly == UNCHANGED <<vaultVars, delVars, vcVars, pageVars, idVars, valVars>>
PageOnly == UNCHANGED <<vaultVars, pidVars, bgVars, delVars, vcVars, idVars, valVars>>
IdOnly == UNCHANGED <<vaultVars, pidVars, bgVars, delVars, vcVars, pageVars, valVars>>

(***************************************************************************)
(* JSON.stringify of a request object into the JSONB column, and the pg    *)
(* driver's parse of the column back into an object.  A JSONB object is a  *)
(* set of key/value pairs.                                                 *)
(***************************************************************************)
JSONstringify(obj) == { <<k, obj[k]>> : k \in DOMAIN obj }

JSONparse(js) ==
    [k \in { pr[1] : pr \in js } |-> (CHOOSE pr \in js : pr[1] = k)[2]]

\* mutant: { ...existing.rows[0].fields, newPassword } (shorthand property)
MergePassword_Shorthand(fields, newPassword) ==
    [k \in (DOMAIN fields) \cup {"newPassword"} |->
        IF k = "newPassword" THEN newPassword ELSE fields[k]]

\* mutant: { username: existing.username, password: newPassword }
MergePassword_CoreOnly(fields, newPassword) ==
    [username |-> fields.username, password |-> newPassword]

\* mutant: the password replaced is kept under previousPassword
MergePassword_KeepPrevious(fields, newPassword) ==
    [k \in (DOMAIN fields) \cup {"password", "previousPassword"} |->
        IF k = "password" THEN newPassword
        ELSE IF k = "previousPassword"
               THEN (IF "password" \in DOMAIN fields THEN fields.password ELSE "")
               ELSE fields[k]]

\* mutant: the fields are stored as they were read
MergePassword_Unchanged(fields, newPassword) == fields

\* { ...existing.rows[0].fields, password: newPassword }
MergePassword(fields, newPassword) ==
    [k \in (DOMAIN fields) \cup {"password"} |->
        IF k = "password" THEN newPassword ELSE fields[k]]

NoRow == <<>>
NoResp == [status |-> 0]
Idle == [op |-> "idle"]
NoLoc == [none |-> TRUE]
NoHist == [last |-> "none", w |-> <<>>, p |-> ""]
NoGhost == [seen |-> NoHist, changed |-> FALSE, conc |-> FALSE, removed |-> 0]

AuditRow(vaultId, appId, action) ==
    [vault_id |-> vaultId, app_id |-> appId, action |-> action]

\* requests in flight (a handler is between two awaits)
InFlight == { p \in Procs : vpc[p] \notin {"idle", "done", "hung"} }

\* the handler accepts a new request in this slot
CanStart(p) ==
    /\ vpc[p] \in {"idle", "done", "hung"}
    /\ budget > 0
    /\ budget' = budget - 1


NotFound == [error |-> "Credentials not found"]
InternalError == [error |-> "Internal server error"]
Success == [success |-> TRUE]

\* the audit tag the contract gives each operation
TagOf(op) ==
    CASE op = "read" -> "read"
      [] op = "write" -> "write"
      [] op = "update-password" -> "update"
      [] op = "delete" -> "delete"
      [] op = "delete-vault" -> "delete-vault"

\* history entry for a success response of request r
OkEntry(r) ==
    [vault_id |-> r.vaultId,
     app_id |-> IF r.op = "delete-vault" THEN "*" ELSE r.appId,
     action |-> TagOf(r.op)]

\* res.status(s).json(body) answering request r, which ends the handler; a
\* success response is recorded in the history okLog
Respond(p, r, s, body) ==
    /\ vres' = [vres EXCEPT ![p] = [status |-> s, body |-> body]]
    /\ vpc' = [vpc EXCEPT ![p] = "done"]
    /\ vloc' = [vloc EXCEPT ![p] = NoLoc]
    /\ okLog' = IF s = 200 THEN Append(okLog, OkEntry(r)) ELSE okLog

VaultInit ==
    /\ vault_credentials = [k \in Keys |-> NoRow]
    /\ audit_log = <<>>
    /\ rowLock = [k \in Keys |-> ""]
    /\ vreq = [p \in Procs |-> Idle]
    /\ vpc = [p \in Procs |-> "idle"]
    /\ vloc = [p \in Procs |-> NoLoc]
    /\ vres = [p \in Procs |-> NoResp]
    /\ vgh = [p \in Procs |-> NoGhost]
    /\ hist = [k \in Keys |-> NoHist]
    /\ okLog = <<>>
    /\ dbNow = 0
    /\ updated_at = [k \in Keys |-> 0]
    /\ txStart = [p \in Procs |-> 0]
    /\ budget = MaxReqs

(***************************************************************************)
(* POST /internal/vault/read                                               *)
(***************************************************************************)
\* SELECT fields FROM vault_credentials WHERE vault_id = $1 AND app_id = $2
ReadSelect(p, v, a) ==
    /\ CanStart(p)
    /\ vreq' = [vreq EXCEPT ![p] = [op |-> "read", vaultId |-> v, appId |-> a]]
    /\ vgh' = [vgh EXCEPT ![p] = [NoGhost EXCEPT !.seen = hist[<<v, a>>]]]
    /\ IF vault_credentials[<<v, a>>] = NoRow
         THEN Respond(p, [op |-> "read", vaultId |-> v, appId |-> a], 404, NotFound)
         ELSE /\ vpc' = [vpc EXCEPT ![p] = "read_audit"]
              /\ UNCHANGED okLog
              /\ vloc' = [vloc EXCEPT ![p] =
                            [fields |-> JSONparse(vault_credentials[<<v, a>>][1])]]
              /\ vres' = [vres EXCEPT ![p] = NoResp]
    /\ UNCHANGED <<vault_credentials, audit_log, rowLock, hist>>
    /\ UNCHANGED <<dbNow, updated_at, txStart>>

\* INSERT INTO audit_log ... 'read', then res.json({ fields })
ReadAudit(p) ==
    /\ UNCHANGED budget
    /\ vpc[p] = "read_audit"
    /\ audit_log' = Append(audit_log,
                       AuditRow(vreq[p].vaultId, vreq[p].appId, "read"))
    /\ Respond(p, vreq[p], 200, [fields |-> vloc[p].fields])
    /\ UNCHANGED <<vault_credentials, rowLock, vreq, vgh, hist>>
    /\ UNCHANGED <<dbNow, updated_at, txStart>>

(***************************************************************************)
(* POST /internal/vault/write                                              *)
(***************************************************************************)
\* mutant: ON CONFLICT ... DO UPDATE SET fields = vault_credentials.fields || $3
Upsert_Merge(k, f) ==
    IF vault_credentials[k] = NoRow
      THEN [vault_credentials EXCEPT ![k] = <<JSONstringify(f)>>]
      ELSE [vault_credentials EXCEPT ![k] =
              <<{ pr \in vault_credentials[k][1] : pr[1] \notin DOMAIN f }
                  \cup JSONstringify(f)>>]

\* mutant: ON CONFLICT (vault_id, app_id) DO NOTHING
Upsert_DoNothing(k, f) ==
    IF vault_credentials[k] = NoRow
      THEN [vault_credentials EXCEPT ![k] = <<JSONstringify(f)>>]
      ELSE vault_credentials

\* the table after INSERT ... VALUES ($1, $2, $3) ON CONFLICT (vault_id, app_id)
\* DO UPDATE SET fields = $3, with $3 = JSON.stringify(fields)
Upsert(k, f) == [vault_credentials EXCEPT ![k] = <<JSONstringify(f)>>]

\* the upsert statement of the write handler (it waits for a row lock held by
\* a transaction)
WriteUpsert(p, v, a, f) ==
    /\ CanStart(p)
    /\ rowLock[<<v, a>>] = ""
    /\ vreq' = [vreq EXCEPT ![p] =
                   [op |-> "write", vaultId |-> v, appId |-> a, fields |-> f]]
    /\ vault_credentials' = Upsert(<<v, a>>, f)
    /\ hist' = [hist EXCEPT ![<<v, a>>] = [last |-> "write", w |-> <<f>>, p |-> ""]]
    /\ vgh' = [vgh EXCEPT ![p] = [NoGhost EXCEPT !.changed = TRUE]]
    /\ vpc' = [vpc EXCEPT ![p] = "write_audit"]
    /\ vloc' = [vloc EXCEPT ![p] = NoLoc]
    /\ vres' = [vres EXCEPT ![p] = NoResp]
    /\ UNCHANGED <<audit_log, rowLock, okLog>>
    /\ updated_at' = [updated_at EXCEPT ![<<v, a>>] = dbNow]
    /\ UNCHANGED <<dbNow, txStart>>

\* INSERT INTO audit_log ... 'write', then res.json({ success: true })
WriteAudit(p) ==
    /\ UNCHANGED budget
    /\ vpc[p] = "write_audit"
    /\ audit_log' = Append(audit_log,
                       AuditRow(vreq[p].vaultId, vreq[p].appId, "write"))
    /\ Respond(p, vreq[p], 200, Success)
    /\ UNCHANGED <<vault_credentials, rowLock, vreq, vgh, hist>>
    /\ UNCHANGED <<dbNow, updated_at, txStart>>

(***************************************************************************)
(* POST /internal/vault/update-password                                    *)
(***************************************************************************)
TxnPcs == {"upd_select", "upd_update", "upd_audit", "upd_commit"}

\* the handler is entered, db.getClient() returns a client and BEGIN starts
\* the transaction: NOW() is the time of this step until COMMIT
UpdStart(p, v, a, np) ==
    /\ CanStart(p)
    /\ vreq' = [vreq EXCEPT ![p] = [op |-> "update-password", vaultId |-> v,
                                    appId |-> a, newPassword |-> np]]
    /\ vgh' = [vgh EXCEPT ![p] = [NoGhost EXCEPT !.conc =
                  \E q \in Procs \ {p} :
                      /\ vpc[q] \in TxnPcs
                      /\ vreq[q].vaultId = v
                      /\ vreq[q].appId = a]]
    /\ vpc' = [vpc EXCEPT ![p] = "upd_select"]
    /\ vloc' = [vloc EXCEPT ![p] = NoLoc]
    /\ vres' = [vres EXCEPT ![p] = NoResp]
    /\ UNCHANGED <<vault_credentials, audit_log, rowLock, hist, okLog>>
    /\ txStart' = [txStart EXCEPT ![p] = dbNow]
    /\ UNCHANGED <<dbNow, updated_at>>

\* db.getClient() rejects: it is awaited outside the try block, so the handler
\* ends without sending a response
UpdConnectError(p, v, a, np) ==
    /\ CanStart(p)
    /\ vreq' = [vreq EXCEPT ![p] = [op |-> "update-password", vaultId |-> v,
                                    appId |-> a, newPassword |-> np]]
    /\ vgh' = [vgh EXCEPT ![p] = NoGhost]
    /\ vpc' = [vpc EXCEPT ![p] = "hung"]
    /\ vloc' = [vloc EXCEPT ![p] = NoLoc]
    /\ vres' = [vres EXCEPT ![p] = NoResp]
    /\ UNCHANGED <<vault_credentials, audit_log, rowLock, hist, okLog>>
    /\ UNCHANGED <<dbNow, updated_at, txStart>>

\* mutant: the UPDATE is an upsert: without a row the transaction goes on
\* with an empty object
UpdSelect_Upsert(p) ==
    LET k == <<vreq[p].vaultId, vreq[p].appId>> IN
    /\ UNCHANGED budget
    /\ vpc[p] = "upd_select"
    /\ rowLock[k] = ""
    /\ rowLock' = [rowLock EXCEPT ![k] = p]
    /\ vloc' = [vloc EXCEPT ![p] =
                  [existing |-> IF vault_credentials[k] = NoRow
                                  THEN [x \in {} |-> ""]
                                  ELSE JSONparse(vault_credentials[k][1])]]
    /\ vpc' = [vpc EXCEPT ![p] = "upd_update"]
    /\ UNCHANGED <<vres, okLog>>
    /\ UNCHANGED <<vault_credentials, audit_log, vreq, vgh, hist>>
    /\ UNCHANGED <<dbNow, updated_at, txStart>>

\* mutant: SELECT fields without FOR UPDATE takes no row lock
UpdSelect_NoLock(p) ==
    LET k == <<vreq[p].vaultId, vreq[p].appId>> IN
    /\ UNCHANGED budget
    /\ vpc[p] = "upd_select"
    /\ IF vault_credentials[k] = NoRow
         THEN /\ Respond(p, vreq[p], 404, NotFound)
         ELSE /\ vloc' = [vloc EXCEPT ![p] =
                            [existing |-> JSONparse(vault_credentials[k][1])]]
              /\ vpc' = [vpc EXCEPT ![p] = "upd_update"]
              /\ UNCHANGED <<vres, okLog>>
    /\ UNCHANGED <<vault_credentials, audit_log, rowLock, vreq, vgh, hist>>
    /\ UNCHANGED <<dbNow, updated_at, txStart>>

\* SELECT fields ... FOR UPDATE (waits while another transaction holds the row
\* lock); no row: ROLLBACK and 404
UpdSelect(p) ==
    LET k == <<vreq[p].vaultId, vreq[p].appId>> IN
    /\ UNCHANGED budget
    /\ vpc[p] = "upd_select"
    /\ rowLock[k] = ""
    /\ IF vault_credentials[k] = NoRow
         THEN /\ Respond(p, vreq[p], 404, NotFound)
              /\ UNCHANGED rowLock
         ELSE /\ rowLock' = [rowLock EXCEPT ![k] = p]
              /\ vloc' = [vloc EXCEPT ![p] =
                            [existing |-> JSONparse(vault_credentials[k][1])]]
              /\ vpc' = [vpc EXCEPT ![p] = "upd_update"]
              /\ UNCHANGED <<vres, okLog>>
    /\ UNCHANGED <<vault_credentials, audit_log, vreq, vgh, hist>>
    /\ UNCHANGED <<dbNow, updated_at, txStart>>

\* updatedFields = {...existing, password}; UPDATE vault_credentials SET
\* fields = $1 (uncommitted: visible to this transaction only)
UpdUpdate(p) ==
    /\ UNCHANGED budget
    /\ vpc[p] = "upd_update"
    /\ vloc' = [vloc EXCEPT ![p] =
                  [pendingFields |-> JSONstringify(
                       MergePassword(vloc[p].existing, vreq[p].newPassword))]]
    /\ vpc' = [vpc EXCEPT ![p] = "upd_audit"]
    /\ UNCHANGED <<vault_credentials, audit_log, rowLock, vreq, vres, vgh,
                   hist, okLog>>
    /\ UNCHANGED <<dbNow, updated_at, txStart>>

\* INSERT INTO audit_log ... 'update' (uncommitted)
UpdAudit(p) ==
    /\ UNCHANGED budget
    /\ vpc[p] = "upd_audit"
    /\ vloc' = [vloc EXCEPT ![p] =
                  [pendingFields |-> vloc[p].pendingFields,
                   pendingAudit |-> AuditRow(vreq[p].vaultId, vreq[p].appId,
                                             "update")]]
    /\ vpc' = [vpc EXCEPT ![p] = "upd_commit"]
    /\ UNCHANGED <<vault_credentials, audit_log, rowLock, vreq, vres, vgh,
                   hist, okLog>>
    /\ UNCHANGED <<dbNow, updated_at, txStart>>

\* COMMIT: both pending changes become visible and the row lock is released;
\* then res.json({ success: true })
UpdCommit(p) ==
    LET k == <<vreq[p].vaultId, vreq[p].appId>> IN
    /\ UNCHANGED budget
    /\ vpc[p] = "upd_commit"
    /\ vault_credentials' =
           [vault_credentials EXCEPT ![k] = <<vloc[p].pendingFields>>]
    /\ audit_log' = Append(audit_log, vloc[p].pendingAudit)
    /\ rowLock' = [rowLock EXCEPT ![k] = ""]
    /\ hist' = [hist EXCEPT ![k] =
                  [last |-> "update", w |-> hist[k].w, p |-> vreq[p].newPassword]]
    /\ vgh' = [vgh EXCEPT ![p].changed = TRUE]
    /\ Respond(p, vreq[p], 200, Success)
    /\ UNCHANGED vreq
    /\ updated_at' = [updated_at EXCEPT ![k] = txStart[p]]
    /\ UNCHANGED <<dbNow, txStart>>

\* a statement of the transaction throws: ROLLBACK, 500
TxnError(p) ==
    /\ UNCHANGED budget
    /\ vpc[p] \in TxnPcs
    /\ rowLock' = [k \in Keys |-> IF rowLock[k] = p THEN "" ELSE rowLock[k]]
    /\ Respond(p, vreq[p], 500, InternalError)
    /\ UNCHANGED <<vault_credentials, audit_log, vreq, vgh, hist>>
    /\ UNCHANGED <<dbNow, updated_at, txStart>>

(***************************************************************************)
(* POST /internal/vault/delete                                             *)
(***************************************************************************)
\* DELETE FROM vault_credentials WHERE vault_id = $1 AND app_id = $2
DeleteRow(p, v, a) ==
    /\ CanStart(p)
    /\ rowLock[<<v, a>>] = ""
    /\ vreq' = [vreq EXCEPT ![p] = [op |-> "delete", vaultId |-> v, appId |-> a]]
    /\ IF vault_credentials[<<v, a>>] = NoRow
         THEN /\ Respond(p, [op |-> "delete", vaultId |-> v, appId |-> a],
                         404, NotFound)
              /\ vgh' = [vgh EXCEPT ![p] = NoGhost]
              /\ UNCHANGED <<vault_credentials, hist>>
         ELSE /\ vault_credentials' =
                     [vault_credentials EXCEPT ![<<v, a>>] = NoRow]
              /\ hist' = [hist EXCEPT ![<<v, a>>] =
                            [last |-> "delete", w |-> <<>>, p |-> ""]]
              /\ vgh' = [vgh EXCEPT ![p] = [NoGhost EXCEPT !.changed = TRUE]]
              /\ vpc' = [vpc EXCEPT ![p] = "delete_audit"]
              /\ vloc' = [vloc EXCEPT ![p] = NoLoc]
              /\ vres' = [vres EXCEPT ![p] = NoResp]
              /\ UNCHANGED okLog
    /\ UNCHANGED <<audit_log, rowLock>>
    /\ updated_at' = [updated_at EXCEPT ![<<v, a>>] = 0]
    /\ UNCHANGED <<dbNow, txStart>>

\* mutant: the audit rows of the deleted key are removed with it
DeleteAudit_PurgeKey(p) ==
    /\ UNCHANGED budget
    /\ vpc[p] = "delete_audit"
    /\ audit_log' =
         LET Other(r) == ~(r.vault_id = vreq[p].vaultId /\ r.app_id = vreq[p].appId)
         IN  Append(SelectSeq(audit_log, Other),
                    AuditRow(vreq[p].vaultId, vreq[p].appId, "delete"))
    /\ Respond(p, vreq[p], 200, Success)
    /\ UNCHANGED <<vault_credentials, rowLock, vreq, vgh, hist>>
    /\ UNCHANGED <<dbNow, updated_at, txStart>>

\* INSERT INTO audit_log ... 'delete', then res.json({ success: true })
DeleteAudit(p) ==
    /\ UNCHANGED budget
    /\ vpc[p] = "delete_audit"
    /\ audit_log' = Append(audit_log,
                       AuditRow(vreq[p].vaultId, vreq[p].appId, "delete"))
    /\ Respond(p, vreq[p], 200, Success)
    /\ UNCHANGED <<vault_credentials, rowLock, vreq, vgh, hist>>
    /\ UNCHANGED <<dbNow, updated_at, txStart>>

(***************************************************************************)
(* POST /internal/vault/delete-vault                                       *)
(***************************************************************************)
\* the rows DELETE FROM vault_credentials WHERE vault_id = $1 matches
RowsOfVault(v) == { k \in Keys : k[1] = v /\ vault_credentials[k] # NoRow }

\* the table after the statement (mutant: the WHERE clause is missing)
DeleteWhereVault_NoWhere(v) == [k \in Keys |-> NoRow]

DeleteWhereVault(v) ==
    [k \in Keys |-> IF k \in RowsOfVault(v) THEN NoRow ELSE vault_credentials[k]]

DeleteVaultRows(p, v) ==
    /\ CanStart(p)
    /\ \A k \in RowsOfVault(v) : rowLock[k] = ""
    /\ vreq' = [vreq EXCEPT ![p] = [op |-> "delete-vault", vaultId |-> v]]
    /\ vault_credentials' = DeleteWhereVault(v)
    /\ hist' = [k \in Keys |-> IF k[1] = v
                                 THEN [last |-> "delete-vault", w |-> <<>>, p |-> ""]
                                 ELSE hist[k]]
    /\ vgh' = [vgh EXCEPT ![p] =
                 [NoGhost EXCEPT
                    !.changed = (RowsOfVault(v) # {}),
                    !.removed = Cardinality({ k \in Keys :
                                    /\ vault_credentials[k] # NoRow
                                    /\ vault_credentials'[k] = NoRow })]]
    /\ vloc' = [vloc EXCEPT ![p] = [rowCount |-> Cardinality(RowsOfVault(v))]]
    /\ vpc' = [vpc EXCEPT ![p] = "delvault_audit"]
    /\ vres' = [vres EXCEPT ![p] = NoResp]
    /\ UNCHANGED <<audit_log, rowLock, okLog>>
    /\ updated_at' = [k \in Keys |-> IF k[1] = v THEN 0 ELSE updated_at[k]]
    /\ UNCHANGED <<dbNow, txStart>>

\* mutant: the audit row is written only when rows were deleted
DeleteVaultAudit_SkipEmpty(p) ==
    /\ UNCHANGED budget
    /\ vpc[p] = "delvault_audit"
    /\ audit_log' = IF vloc[p].rowCount = 0 THEN audit_log
                    ELSE Append(audit_log,
                             AuditRow(vreq[p].vaultId, "*", "delete-vault"))
    /\ Respond(p, vreq[p], 200, [success |-> TRUE, deletedCount |-> vloc[p].rowCount])
    /\ UNCHANGED <<vault_credentials, rowLock, vreq, vgh, hist>>
    /\ UNCHANGED <<dbNow, updated_at, txStart>>

\* INSERT INTO audit_log (vault_id, '*', 'delete-vault'), then
\* res.json({ success: true, deletedCount: result.rowCount })
DeleteVaultAudit(p) ==
    /\ UNCHANGED budget
    /\ vpc[p] = "delvault_audit"
    /\ audit_log' = Append(audit_log,
                       AuditRow(vreq[p].vaultId, "*", "delete-vault"))
    /\ Respond(p, vreq[p], 200, [success |-> TRUE, deletedCount |-> vloc[p].rowCount])
    /\ UNCHANGED <<vault_credentials, rowLock, vreq, vgh, hist>>
    /\ UNCHANGED <<dbNow, updated_at, txStart>>

(***************************************************************************)
(* Storage errors outside a transaction: db.query rejects, the handler's   *)
(* catch block answers 500.                                                *)
(***************************************************************************)
\* the first statement of read, write, delete or delete-vault throws
FirstQueryError(p, r) ==
    /\ CanStart(p)
    /\ vreq' = [vreq EXCEPT ![p] = r]
    /\ vgh' = [vgh EXCEPT ![p] = NoGhost]
    /\ Respond(p, r, 500, InternalError)
    /\ UNCHANGED <<vault_credentials, audit_log, rowLock, hist>>
    /\ UNCHANGED <<dbNow, updated_at, txStart>>

\* the audit INSERT throws after the credential statement was committed
AuditQueryError(p) ==
    /\ UNCHANGED budget
    /\ vpc[p] \in {"read_audit", "write_audit", "delete_audit", "delvault_audit"}
    /\ Respond(p, vreq[p], 500, InternalError)
    /\ UNCHANGED <<vault_credentials, audit_log, rowLock, vreq, vgh, hist>>
    /\ UNCHANGED <<dbNow, updated_at, txStart>>

PlainRequests ==
    [op : {"read", "delete"}, vaultId : VaultIds, appId : AppIds]
    \cup [op : {"write"}, vaultId : VaultIds, appId : AppIds, fields : FieldMaps]
    \cup [op : {"delete-vault"}, vaultId : VaultIds]

\* one step of the handler serving slot p
VaultStep(p) ==
    \/ \E v \in VaultIds, a \in AppIds : ReadSelect(p, v, a)
         /\ VaultOnly
    \/ ReadAudit(p)
         /\ VaultOnly
    \/ \E v \in VaultIds, a \in AppIds, f \in FieldMaps : WriteUpsert(p, v, a, f)
         /\ VaultOnly
    \/ WriteAudit(p)
         /\ VaultOnly
    \/ \E v \in VaultIds, a \in AppIds, np \in NewPasswords : UpdStart(p, v, a, np)
         /\ VaultOnly
    \/ \E v \in VaultIds, a \in AppIds, np \in NewPasswords :
           UpdConnectError(p, v, a, np)
         /\ VaultOnly
    \/ UpdSelect(p)
         /\ VaultOnly
    \/ UpdUpdate(p)
         /\ VaultOnly
    \/ UpdAudit(p)
         /\ VaultOnly
    \/ UpdCommit(p)
         /\ VaultOnly
    \/ TxnError(p)
         /\ VaultOnly
    \/ \E v \in VaultIds, a \in AppIds : DeleteRow(p, v, a)
         /\ VaultOnly
    \/ DeleteAudit(p)
         /\ VaultOnly
    \/ \E v \in VaultIds : DeleteVaultRows(p, v)
         /\ VaultOnly
    \/ DeleteVaultAudit(p)
         /\ VaultOnly
    \/ \E r \in PlainRequests : FirstQueryError(p, r)
         /\ VaultOnly
    \/ AuditQueryError(p)
         /\ VaultOnly

\* the Vault Service serving two clients at once
VaultNext == \E p \in Procs : VaultStep(p)

\* the Vault Service serving one client, request after request
VaultSeqInit ==
    /\ vault_credentials = [k \in Keys |-> NoRow]
    /\ audit_log = <<>>
    /\ rowLock = [k \in Keys |-> ""]
    /\ vreq = [p \in Procs |-> Idle]
    /\ vpc = [p \in Procs |-> "idle"]
    /\ vloc = [p \in Procs |-> NoLoc]
    /\ vres = [p \in Procs |-> NoResp]
    /\ vgh = [p \in Procs |-> NoGhost]
    /\ hist = [k \in Keys |-> NoHist]
    /\ okLog = <<>>
    /\ dbNow = 0
    /\ updated_at = [k \in Keys |-> 0]
    /\ txStart = [p \in Procs |-> 0]
    /\ budget = MaxSeqReqs

VaultSeqNext == VaultStep("r1")

\* two update-password requests racing on rows an earlier write(k, f) left:
\* the state after that write was answered
UpdRaceInit ==
    \E k \in Keys, f \in FieldMaps :
        /\ vault_credentials = [j \in Keys |-> IF j = k THEN <<JSONstringify(f)>>
                                                ELSE NoRow]
        /\ audit_log = <<AuditRow(k[1], k[2], "write")>>
        /\ rowLock = [j \in Keys |-> ""]
        /\ vreq = [p \in Procs |-> Idle]
        /\ vpc = [p \in Procs |-> "idle"]
        /\ vloc = [p \in Procs |-> NoLoc]
        /\ vres = [p \in Procs |-> NoResp]
        /\ vgh = [p \in Procs |-> NoGhost]
        /\ hist = [j \in Keys |-> IF j = k
                                    THEN [last |-> "write", w |-> <<f>>, p |-> ""]
                                    ELSE NoHist]
        /\ okLog = <<AuditRow(k[1], k[2], "write")>>
        /\ dbNow = 0
        /\ updated_at = [j \in Keys |-> 0]
        /\ txStart = [p \in Procs |-> 0]
        /\ budget = MaxReqs

UpdRaceNext ==
    \E p \in Procs :
        \/ \E v \in VaultIds, a \in AppIds, np \in NewPasswords : UpdStart(p, v, a, np)
             /\ VaultOnly
        \/ \E v \in VaultIds, a \in AppIds, np \in NewPasswords :
               UpdConnectError(p, v, a, np)
             /\ VaultOnly
        \/ UpdSelect(p)
             /\ VaultOnly
        \/ UpdUpdate(p)
             /\ VaultOnly
        \/ UpdAudit(p)
             /\ VaultOnly
        \/ UpdCommit(p)
             /\ VaultOnly
        \/ TxnError(p)
             /\ VaultOnly

(***************************************************************************)
(* Request validation (vault-service/src/middleware/validate.js): every    *)
(* route runs its validator before its handler.  A JSON value is a record  *)
(* with its kind t and, for a string or an object, its content.            *)
(***************************************************************************)
Undefined == [t |-> "undefined"]
Null == [t |-> "null"]
Number == [t |-> "number"]
Array == [t |-> "array"]
Str(x) == [t |-> "string", s |-> x]
Obj(x) == [t |-> "object", o |-> x]

\* typeof value
typeof(value) == IF value.t \in {"null", "array"} THEN "object" ELSE value.t

\* strings of white space only
Blank == {"", " "}

\* String.prototype.trim on the strings of the model
trim(x) == IF x \in Blank THEN "" ELSE x

\* typeof value === 'string' && value.trim().length > 0
isNonEmptyString(value) == typeof(value) = "string" /\ trim(value.s) # ""

\* req.body[field]
Field(body, field) ==
    IF body.t = "object" /\ field \in DOMAIN body.o THEN body.o[field] ELSE Undefined

\* the validator of the fields of a write
fieldsValidator(value) ==
    IF value.t \in {"undefined", "null"} \/ value = Str("")
         \/ typeof(value) # "object" \/ value.t = "array"
      THEN "fields is required and must be a JSON object"
      ELSE ""

\* mutant: update-password requires vaultId and appId only
requiredFields_KeyOnly(op) ==
    IF op = "delete-vault" THEN <<"vaultId">> ELSE <<"vaultId", "appId">>

\* the required string fields of validateRead, validateWrite,
\* validateUpdatePassword, validateDelete and validateDeleteVault
requiredFields(op) ==
    CASE op = "update-password" -> <<"vaultId", "appId", "newPassword">>
      [] op = "delete-vault" -> <<"vaultId">>
      [] OTHER -> <<"vaultId", "appId">>

\* validateBody: the error message of the 400 response, "" when next() runs
validateBody(op, body) ==
    LET required == requiredFields(op)
        bad == { i \in 1..Len(required) : ~isNonEmptyString(Field(body, required[i])) }
    IN  IF body.t \in {"undefined", "null"} \/ typeof(body) # "object"
          THEN "Request body must be a JSON object"
        ELSE IF bad # {}
          THEN required[CHOOSE i \in bad : \A j \in bad : i <= j]
                   \o " is required and must be a non-empty string"
        ELSE IF op = "write"
          THEN fieldsValidator(Field(body, "fields"))
        ELSE ""

\* the value a handler gets for a string parameter of the body
Arg(value) == IF value.t = "string" THEN value.s ELSE value.t

\* request bodies: not an object, or an object with each member of the
\* operation present or not, of the right kind or not
StringMembers(ok) == {Undefined, Number, Str(" "), Str(ok)}
NotObjects == {Null, Array, Str("v1")}
KeyBodies ==
    { Obj([vaultId |-> v, appId |-> a]) :
        v \in StringMembers("v1"), a \in {Undefined, Str(""), Str("app_a")} }
PasswordBodies ==
    { Obj([vaultId |-> Str("v1"), appId |-> a, newPassword |-> np]) :
        a \in {Null, Str("app_a")}, np \in StringMembers("p2") }
FieldsBodies ==
    { Obj([vaultId |-> v, appId |-> Str("app_a"), fields |-> f]) :
        v \in {Number, Str("v1")},
        f \in {Undefined, Null, Array, Str("x"),
               Obj([username |-> "u", password |-> "p"])} }

Requests ==
    [op : {"read", "delete", "delete-vault"}, body : NotObjects \cup KeyBodies]
    \cup [op : {"update-password"}, body : NotObjects \cup PasswordBodies]
    \cup [op : {"write"}, body : NotObjects \cup KeyBodies \cup FieldsBodies]

NoRequest == [op |-> "none", body |-> Undefined]

ValInit == received = NoRequest

\* a request arrives at a route: the validator answers 400, or calls next()
\* and the handler runs to its first statement
Receive(p, op, body) ==
    /\ received' = [op |-> op, body |-> body]
    /\ IF validateBody(op, body) # ""
         THEN /\ CanStart(p)
              /\ vreq' = [vreq EXCEPT ![p] = [op |-> op]]
              /\ vgh' = [vgh EXCEPT ![p] = NoGhost]
              /\ Respond(p, [op |-> op], 400, [error |-> validateBody(op, body)])
              /\ UNCHANGED <<vault_credentials, audit_log, rowLock, hist,
                             dbNow, updated_at, txStart>>
         ELSE LET v == Arg(Field(body, "vaultId"))
                  a == Arg(Field(body, "appId"))
              IN  CASE op = "read" -> ReadSelect(p, v, a)
                    [] op = "write" -> WriteUpsert(p, v, a, Field(body, "fields").o)
                    [] op = "update-password" ->
                          UpdStart(p, v, a, Arg(Field(body, "newPassword")))
                    [] op = "delete" -> DeleteRow(p, v, a)
                    [] op = "delete-vault" -> DeleteVaultRows(p, v)

\* the Vault Service serving one client whose bodies may be malformed
ValidateNext ==
    \/ \E r \in Requests : Receive("r1", r.op, r.body)
         /\ UNCHANGED <<pidVars, bgVars, delVars, vcVars, pageVars, idVars>>
    \/ ReadAudit("r1")
         /\ VaultOnly
    \/ WriteAudit("r1")
         /\ VaultOnly
    \/ UpdSelect("r1")
         /\ VaultOnly
    \/ UpdUpdate("r1")
         /\ VaultOnly
    \/ UpdAudit("r1")
         /\ VaultOnly
    \/ UpdCommit("r1")
         /\ VaultOnly
    \/ TxnError("r1")
         /\ VaultOnly
    \/ DeleteAudit("r1")
         /\ VaultOnly
    \/ DeleteVaultAudit("r1")
         /\ VaultOnly
    \/ AuditQueryError("r1")
         /\ VaultOnly

\* the requests the verification script sends one after the other, each on
\* the key of its first write (Test 5 to Test 8, with a read after each change)
Script == <<"write", "read", "update-password", "read", "delete", "read">>

\* requests the script has sent
Sent == MaxScriptReqs - budget

\* the script sends op next, on the key v, a
ScriptSends(op, v, a) ==
    /\ Script[(Sent % Len(Script)) + 1] = op
    /\ vreq["r1"] # Idle => (v = vreq["r1"].vaultId /\ a = vreq["r1"].appId)

ScriptInit ==
    /\ vault_credentials = [k \in Keys |-> NoRow]
    /\ audit_log = <<>>
    /\ rowLock = [k \in Keys |-> ""]
    /\ vreq = [p \in Procs |-> Idle]
    /\ vpc = [p \in Procs |-> "idle"]
    /\ vloc = [p \in Procs |-> NoLoc]
    /\ vres = [p \in Procs |-> NoResp]
    /\ vgh = [p \in Procs |-> NoGhost]
    /\ hist = [k \in Keys |-> NoHist]
    /\ okLog = <<>>
    /\ dbNow = 0
    /\ updated_at = [k \in Keys |-> 0]
    /\ txStart = [p \in Procs |-> 0]
    /\ budget = MaxScriptReqs

\* the Vault Service serving the script: each request is sent when the answer
\* to the one before has arrived
ScriptNext ==
    \/ \E v \in VaultIds, a \in AppIds, f \in FieldMaps :
           ScriptSends("write", v, a) /\ WriteUpsert("r1", v, a, f)
         /\ VaultOnly
    \/ WriteAudit("r1")
         /\ VaultOnly
    \/ \E v \in VaultIds, a \in AppIds :
           ScriptSends("read", v, a) /\ ReadSelect("r1", v, a)
         /\ VaultOnly
    \/ ReadAudit("r1")
         /\ VaultOnly
    \/ \E v \in VaultIds, a \in AppIds, np \in NewPasswords :
           ScriptSends("update-password", v, a) /\ UpdStart("r1", v, a, np)
         /\ VaultOnly
    \/ \E v \in VaultIds, a \in AppIds, np \in NewPasswords :
           ScriptSends("update-password", v, a) /\ UpdConnectError("r1", v, a, np)
         /\ VaultOnly
    \/ UpdSelect("r1")
         /\ VaultOnly
    \/ UpdUpdate("r1")
         /\ VaultOnly
    \/ UpdAudit("r1")
         /\ VaultOnly
    \/ UpdCommit("r1")
         /\ VaultOnly
    \/ TxnError("r1")
         /\ VaultOnly
    \/ \E v \in VaultIds, a \in AppIds :
           ScriptSends("delete", v, a) /\ DeleteRow("r1", v, a)
         /\ VaultOnly
    \/ DeleteAudit("r1")
         /\ VaultOnly
    \/ \E r \in PlainRequests :
           /\ r.op # "delete-vault"
           /\ ScriptSends(r.op, r.vaultId, r.appId)
           /\ FirstQueryError("r1", r)
         /\ VaultOnly
    \/ AuditQueryError("r1")
         /\ VaultOnly

\* write and update-password requests of two clients on rows an earlier write
\* left
WriteRaceNext ==
    \E p \in Procs :
        \/ \E v \in VaultIds, a \in AppIds, f \in FieldMaps :
               /\ vault_credentials[<<v, a>>] # NoRow
               /\ WriteUpsert(p, v, a, f)
             /\ VaultOnly
        \/ WriteAudit(p)
             /\ VaultOnly
        \/ \E v \in VaultIds, a \in AppIds, np \in NewPasswords : UpdStart(p, v, a, np)
             /\ VaultOnly
        \/ UpdSelect(p)
             /\ VaultOnly
        \/ UpdUpdate(p)
             /\ VaultOnly
        \/ UpdAudit(p)
             /\ VaultOnly
        \/ UpdCommit(p)
             /\ VaultOnly
        \/ TxnError(p)
             /\ VaultOnly

\* reads, password updates and deletes of two clients on a table with one row
MissingKeyNext ==
    \E p \in Procs :
        \/ \E v \in VaultIds, a \in AppIds : ReadSelect(p, v, a)
             /\ VaultOnly
        \/ ReadAudit(p)
             /\ VaultOnly
        \/ \E v \in VaultIds, a \in AppIds, np \in NewPasswords : UpdStart(p, v, a, np)
             /\ VaultOnly
        \/ UpdSelect(p)
             /\ VaultOnly
        \/ UpdUpdate(p)
             /\ VaultOnly
        \/ UpdAudit(p)
             /\ VaultOnly
        \/ UpdCommit(p)
             /\ VaultOnly
        \/ TxnError(p)
             /\ VaultOnly
        \/ \E v \in VaultIds, a \in AppIds : DeleteRow(p, v, a)
             /\ VaultOnly
        \/ DeleteAudit(p)
             /\ VaultOnly

\* the clock of the database server advances
DbTick ==
    /\ dbNow < MaxDbTime
    /\ dbNow' = dbNow + 1
    /\ UNCHANGED <<vault_credentials, audit_log, rowLock, vreq, vpc, vloc, vres,
                   vgh, hist, okLog, updated_at, txStart, budget>>

\* write and update-password requests of two clients on rows an earlier write
\* left, while the clock of the database advances
ClockNext ==
    \/ \E p \in Procs :
          \/ \E v \in VaultIds, a \in AppIds, f \in FieldMaps : WriteUpsert(p, v, a, f)
               /\ VaultOnly
          \/ WriteAudit(p)
               /\ VaultOnly
          \/ \E v \in VaultIds, a \in AppIds, np \in NewPasswords : UpdStart(p, v, a, np)
               /\ VaultOnly
          \/ UpdSelect(p)
               /\ VaultOnly
          \/ UpdUpdate(p)
               /\ VaultOnly
          \/ UpdAudit(p)
               /\ VaultOnly
          \/ UpdCommit(p)
               /\ VaultOnly
    \/ DbTick
         /\ VaultOnly

(***************************************************************************)
(* Properties of the Vault Service.                                        *)
(***************************************************************************)
KeyOf(r) == <<r.vaultId, r.appId>>

\* slot p holds an answered request of operation op with status s
Answered(p, op, s) == vreq[p].op = op /\ vpc[p] = "done" /\ vres[p].status = s

\* the row of key k as the pg driver returns it
RowFields(k) == JSONparse(vault_credentials[k][1])

\* C3: two update-password requests with different passwords that were in
\* flight at the same time on one key and both succeeded leave the row with
\* one of the two passwords; every other field is as the last write left it.
C3_ConcurrentUpdatePassword ==
    \A p \in Procs, q \in Procs :
        ( /\ p # q
          /\ Answered(p, "update-password", 200)
          /\ Answered(q, "update-password", 200)
          /\ KeyOf(vreq[p]) = KeyOf(vreq[q])
          /\ vreq[p].newPassword # vreq[q].newPassword
          /\ (vgh[p].conc \/ vgh[q].conc) )
        => LET k == KeyOf(vreq[p])
               f == hist[k].w[1]
           IN  /\ vault_credentials[k] # NoRow
               /\ RowFields(k).password \in {vreq[p].newPassword, vreq[q].newPassword}
               /\ DOMAIN RowFields(k) = (DOMAIN f) \cup {"password"}
               /\ \A j \in (DOMAIN f) \ {"password"} : RowFields(k)[j] = f[j]

C3_Witness ==
    \E p \in Procs, q \in Procs :
        /\ p # q
        /\ Answered(p, "update-password", 200)
        /\ Answered(q, "update-password", 200)
        /\ KeyOf(vreq[p]) = KeyOf(vreq[q])
        /\ vreq[p].newPassword # vreq[q].newPassword
        /\ vgh[q].conc
        /\ "role" \in DOMAIN RowFields(KeyOf(vreq[p]))

\* a read answered 200 whose SELECT ran when the last committed operations on
\* its key were write(f) followed by at least one update-password
ReadAfterUpdate(p) ==
    /\ Answered(p, "read", 200)
    /\ vgh[p].seen.last = "update"
    /\ vgh[p].seen.w # <<>>

\* C4 as stated: after write(f) and updatePassword(p2) a read returns f with
\* the password key replaced by p2 and no key added or removed.
C4_NoKeyAddedOrRemoved ==
    \A p \in Procs :
        ReadAfterUpdate(p) =>
            LET f == vgh[p].seen.w[1]
                r == vres[p].body.fields
            IN  /\ DOMAIN r = DOMAIN f
                /\ \A j \in DOMAIN f :
                       r[j] = IF j = "password" THEN vgh[p].seen.p ELSE f[j]

\* C4 (amended): after write(f) and updatePassword(p2) a read returns f with
\* the password key set to p2 (replaced when f has one, added when f has
\* none); every other key and value of f is unchanged, no other key is added
\* and none is removed.
C4_UpdateKeepsOtherFields ==
    \A p \in Procs :
        ReadAfterUpdate(p) =>
            LET f == vgh[p].seen.w[1]
                r == vres[p].body.fields
            IN  /\ DOMAIN r = (DOMAIN f) \cup {"password"}
                /\ r.password = vgh[p].seen.p
                /\ \A j \in (DOMAIN f) \ {"password"} : r[j] = f[j]

C4_Witness ==
    \E p \in Procs :
        /\ ReadAfterUpdate(p)
        /\ vgh[p].seen.w[1] = [username |-> "u", password |-> "p", role |-> "admin"]
        /\ vres[p].body.fields.password \in NewPasswords

\* C5: a read whose SELECT ran when the last committed operation on its key
\* was write(f) returns exactly f.
C5_WriteReadRoundTrip ==
    \A p \in Procs :
        (Answered(p, "read", 200) /\ vgh[p].seen.last = "write")
            => vres[p].body.fields = vgh[p].seen.w[1]

C5_Witness ==
    \E p \in Procs :
        /\ Answered(p, "read", 200)
        /\ vgh[p].seen.last = "write"
        /\ "role" \in DOMAIN vres[p].body.fields
        /\ Len(audit_log) = 3

\* C6: the DELETE of delete-vault(v) removes every row of v and leaves every
\* row of another vault as it was; the deletedCount answered is the number of
\* rows the statement removed; a read whose SELECT ran when delete-vault was
\* the last operation committed on its key is not answered 200.
C6_DeleteAllFrame ==
    [][ \A p \in Procs :
          /\ (vpc[p] # "delvault_audit" /\ vpc'[p] = "delvault_audit")
                => /\ \A k \in Keys : k[1] = vreq'[p].vaultId
                                         => vault_credentials'[k] = NoRow
                   /\ \A k \in Keys : k[1] # vreq'[p].vaultId
                                         => vault_credentials'[k] = vault_credentials[k]
          /\ (vreq'[p].op = "delete-vault" /\ vres'[p].status = 200)
                => vres'[p].body.deletedCount = vgh'[p].removed
          /\ (vreq'[p].op = "read" /\ vgh'[p].seen.last = "delete-vault"
                /\ vpc'[p] = "done")
                => vres'[p].status = 404
      ]_vars

C6_Witness ==
    \E p \in Procs :
        /\ Answered(p, "delete-vault", 200)
        /\ vres[p].body.deletedCount >= 1
        /\ \A k \in Keys : k[1] = vreq[p].vaultId => vault_credentials[k] = NoRow
        /\ \E k \in Keys : k[1] # vreq[p].vaultId /\ vault_credentials[k] # NoRow

\* C7: the audit log holds exactly one row per success response, in the
\* order of the responses, with the action tag of the operation and the
\* vault_id/app_id of the request ('*' for delete-vault, also when it deleted
\* no row).
C7_OneAuditRowPerSuccess == audit_log = okLog

C7_Witness ==
    \E p \in Procs :
        /\ Answered(p, "delete-vault", 200)
        /\ vres[p].body.deletedCount = 0
        /\ Len(audit_log) = 2
        /\ audit_log[2].app_id = "*"

\* C8: a request answered 500 has committed no credential change.
C8_NoPartialWrite ==
    \A p \in Procs : (vpc[p] = "done" /\ vres[p].status = 500) => ~vgh[p].changed

\* C26: the audit log is append-only: every step of every Vault operation,
\* delete and delete-vault of the credentials an entry refers to included,
\* leaves the entries already written in place and unchanged, so the log
\* only grows.
C26_AuditAppendOnly ==
    [][ /\ Len(audit_log') >= Len(audit_log)
        /\ SubSeq(audit_log', 1, Len(audit_log)) = audit_log
      ]_vars

C26_Witness ==
    \E p \in Procs :
        /\ Answered(p, "delete", 200)
        /\ vault_credentials[<<vreq[p].vaultId, vreq[p].appId>>] = NoRow
        /\ Len(audit_log) = 2
        /\ audit_log[1] = AuditRow(vreq[p].vaultId, vreq[p].appId, "write")
        /\ audit_log[2] = AuditRow(vreq[p].vaultId, vreq[p].appId, "delete")

\* C28: the upsert of write(k, f) leaves exactly one row under k whose fields
\* are exactly f, on a fresh key and on an existing one: no attribute of the
\* earlier value that f lacks stays; the rows of the other keys are as before.
C28_WriteFullReplace ==
    [][ \A p \in Procs :
          (vpc[p] # "write_audit" /\ vpc'[p] = "write_audit")
              => LET k == <<vreq'[p].vaultId, vreq'[p].appId>>
                 IN  /\ Len(vault_credentials'[k]) = 1
                     /\ JSONparse(vault_credentials'[k][1]) = vreq'[p].fields
                     /\ \A j \in Keys \ {k} :
                            vault_credentials'[j] = vault_credentials[j]
      ]_vars

C28_Witness ==
    \E p \in Procs, q \in Procs :
        /\ Answered(p, "write", 200)
        /\ Answered(q, "write", 200)
        /\ KeyOf(vreq[p]) = KeyOf(vreq[q])
        /\ "role" \in DOMAIN vreq[p].fields
        /\ "role" \notin DOMAIN vreq[q].fields
        /\ hist[KeyOf(vreq[q])].w = <<vreq[q].fields>>
        /\ RowFields(KeyOf(vreq[q])) = vreq[q].fields

\* the n-th request of the script was a read, it is answered without a storage
\* error, and every request before it was answered 200
ScriptReadAnswered(n) ==
    /\ Sent = n
    /\ vpc["r1"] = "done"
    /\ vreq["r1"].op = "read"
    /\ vres["r1"].status # 500
    /\ Len(okLog) = (IF vres["r1"].status = 200 THEN n ELSE n - 1)

\* C29: from a fresh key, write(f), read, update-password(np), read, delete,
\* read: the first read returns f, the second returns f with the password np
\* and every other attribute as written, the third is answered 404 not found;
\* a key whose last committed operation is a delete holds no row.
C29_ScriptOutcome ==
    /\ ScriptReadAnswered(2) =>
          /\ vres["r1"].status = 200
          /\ vgh["r1"].seen.last = "write"
          /\ vres["r1"].body.fields = vgh["r1"].seen.w[1]
    /\ ScriptReadAnswered(4) =>
          /\ vres["r1"].status = 200
          /\ vgh["r1"].seen.last = "update"
          /\ LET f == vgh["r1"].seen.w[1]
                 r == vres["r1"].body.fields
             IN  /\ DOMAIN r = DOMAIN f \cup {"password"}
                 /\ r.password = vgh["r1"].seen.p
                 /\ r.password \in NewPasswords
                 /\ \A a \in DOMAIN f \ {"password"} : r[a] = f[a]
    /\ ScriptReadAnswered(6) =>
          /\ vres["r1"].status = 404
          /\ vres["r1"].body = NotFound
    /\ \A k \in Keys : hist[k].last = "delete" => vault_credentials[k] = NoRow

C29_Witness ==
    /\ ScriptReadAnswered(6)
    /\ vres["r1"].status = 404
    /\ audit_log = okLog
    /\ Len(okLog) = 5
    /\ okLog[1].action = "write"
    /\ okLog[3].action = "update"
    /\ okLog[5].action = "delete"
    /\ vault_credentials[KeyOf(vreq["r1"])] = NoRow

\* a request body the contract calls malformed for operation op: not an
\* object; vaultId missing, not a string or blank; the same for appId (every
\* operation but delete-vault) and for newPassword (update-password); fields
\* of a write missing, an array or not an object
BadString(body, field) ==
    IF body.t # "object" THEN TRUE
    ELSE IF field \notin DOMAIN body.o THEN TRUE
    ELSE IF body.o[field].t # "string" THEN TRUE
    ELSE body.o[field].s \in Blank

BadObject(body, field) ==
    IF body.t # "object" THEN TRUE
    ELSE IF field \notin DOMAIN body.o THEN TRUE
    ELSE body.o[field].t # "object"

Malformed(op, body) ==
    \/ BadString(body, "vaultId")
    \/ op # "delete-vault" /\ BadString(body, "appId")
    \/ op = "update-password" /\ BadString(body, "newPassword")
    \/ op = "write" /\ BadObject(body, "fields")

\* C30: a malformed request is answered 400 in the step that receives it,
\* with no statement sent to the database: vault_credentials, audit_log and
\* the row locks are as before and no handler is left in flight.
C30_MalformedRejected ==
    [][ (received' # received \/ budget' # budget)
          => IF Malformed(received'.op, received'.body)
               THEN /\ vres'["r1"].status = 400
                    /\ vpc'["r1"] = "done"
                    /\ UNCHANGED <<vault_credentials, audit_log, rowLock, okLog>>
               ELSE TRUE
      ]_vars

C30_Witness ==
    /\ received.op = "write"
    /\ Field(received.body, "vaultId") = Str("v1")
    /\ Field(received.body, "appId") = Str("app_a")
    /\ Field(received.body, "fields") = Array
    /\ Answered("r1", "write", 400)
    /\ \E k \in Keys : vault_credentials[k] # NoRow
    /\ Len(audit_log) = 2
    /\ budget = 0

\* C31: an operation applied again right after itself changes no record: the
\* upsert of write(k, f) when the last committed operation on k was write(k, f),
\* the commit of update-password(k, p) when it was update-password(k, p), a
\* delete(k) after a delete(k) and a delete-vault(v) after a delete-vault(v) all
\* leave vault_credentials as it was.
C31_RepeatChangesNothing ==
    [][ \A p \in Procs :
          LET r == vreq'[p]
          IN  /\ (vpc[p] # "write_audit" /\ vpc'[p] = "write_audit"
                    /\ hist[KeyOf(r)].last = "write" /\ hist[KeyOf(r)].w = <<r.fields>>)
                    => vault_credentials' = vault_credentials
              /\ (vpc[p] = "upd_commit" /\ vpc'[p] = "done" /\ vres'[p].status = 200
                    /\ hist[KeyOf(r)].last = "update"
                    /\ hist[KeyOf(r)].p = r.newPassword)
                    => vault_credentials' = vault_credentials
              /\ (budget' # budget /\ vpc'[p] # vpc[p] /\ r.op = "delete"
                    /\ hist[KeyOf(r)].last = "delete")
                    => vault_credentials' = vault_credentials
              /\ (vpc[p] # "delvault_audit" /\ vpc'[p] = "delvault_audit"
                    /\ \A k \in Keys : k[1] = r.vaultId => hist[k].last = "delete-vault")
                    => vault_credentials' = vault_credentials
      ]_vars

C31_Witness ==
    /\ Answered("r1", "update-password", 200)
    /\ Len(okLog) = 3
    /\ okLog[2] = okLog[3]
    /\ RowFields(KeyOf(vreq["r1"])).password = vreq["r1"].newPassword
    /\ "role" \in DOMAIN RowFields(KeyOf(vreq["r1"]))

\* C33: with writes and update-password requests in flight at once, the row of
\* a key is what the committed operations give in the order of their commits:
\* the fields of the last write, with the password of the last update-password
\* committed after it; an update-password never stores fields read before a
\* write that committed before it.
C33_WriteNotOverwritten ==
    \A k \in Keys :
        vault_credentials[k] # NoRow =>
            LET f == hist[k].w[1]
            IN  /\ hist[k].last \in {"write", "update"}
                /\ hist[k].last = "write" => RowFields(k) = f
                /\ hist[k].last = "update" =>
                      /\ DOMAIN RowFields(k) = (DOMAIN f) \cup {"password"}
                      /\ RowFields(k).password = hist[k].p
                      /\ \A a \in (DOMAIN f) \ {"password"} : RowFields(k)[a] = f[a]

C33_Witness ==
    \E p \in Procs, q \in Procs :
        /\ Answered(p, "write", 200)
        /\ Answered(q, "update-password", 200)
        /\ KeyOf(vreq[p]) = KeyOf(vreq[q])
        /\ Len(okLog) = 3
        /\ okLog[2].action = "update"
        /\ okLog[3].action = "write"
        /\ hist[KeyOf(vreq[p])].last = "update"
        /\ hist[KeyOf(vreq[p])].w = <<vreq[p].fields>>
        /\ "role" \in DOMAIN vreq[p].fields
        /\ "password" \notin DOMAIN vreq[p].fields
        /\ RowFields(KeyOf(vreq[p])).password = vreq[q].newPassword

\* slot p took a request in this step
Entered(p) ==
    /\ budget' # budget
    /\ <<vreq'[p], vpc'[p], vres'[p]>> # <<vreq[p], vpc[p], vres[p]>>

TablesUnchanged ==
    /\ vault_credentials' = vault_credentials
    /\ audit_log' = audit_log

\* C35: a read or delete that finds no record of its key, and an
\* update-password whose SELECT finds none, is answered 404 'Credentials not
\* found' (500 when the transaction fails), appends no audit entry and leaves
\* vault_credentials unchanged; every step that answers 404 does; and a key
\* without a record gets none by reads, password updates and deletes, also
\* when a password update runs while the record is being deleted.
C35_NotFoundFrame ==
    [][ /\ \A p \in Procs :
              /\ (Entered(p) /\ vreq'[p].op \in {"read", "delete"}
                     /\ vault_credentials[KeyOf(vreq'[p])] = NoRow) =>
                    /\ vpc'[p] = "done"
                    /\ vres'[p] = [status |-> 404, body |-> NotFound]
                    /\ TablesUnchanged
              /\ (vpc[p] = "upd_select" /\ vpc'[p] # "upd_select"
                     /\ vault_credentials[KeyOf(vreq[p])] = NoRow) =>
                    /\ vpc'[p] = "done"
                    /\ vres'[p].status \in {404, 500}
                    /\ vres'[p].status = 404 => vres'[p].body = NotFound
                    /\ TablesUnchanged
              /\ (vpc[p] # "done" /\ vpc'[p] = "done" /\ vres'[p].status = 404) =>
                    /\ vault_credentials[KeyOf(vreq'[p])] = NoRow
                    /\ TablesUnchanged
        /\ (budget' # budget /\ vreq' = vreq /\ vpc' = vpc /\ vres' = vres) =>
              TablesUnchanged
        /\ \A k \in Keys :
              vault_credentials[k] = NoRow => vault_credentials'[k] = NoRow
      ]_vars

\* an update-password answered 404 while the delete of its key is in flight
C35_Witness ==
    \E p \in Procs, q \in Procs :
        /\ vreq[p].op = "delete"
        /\ vpc[p] = "delete_audit"
        /\ Answered(q, "update-password", 404)
        /\ KeyOf(vreq[q]) = KeyOf(vreq[p])
        /\ vres[q].body = NotFound
        /\ vault_credentials[KeyOf(vreq[q])] = NoRow
        /\ Len(audit_log) = 1

\* C25: vault_credentials holds at most one record per (vault_id, app_id),
\* and the updated_at of a record never decreases from one write or
\* update-password to the next.
C25_UpdatedAtNeverDecreases ==
    [][ /\ DOMAIN vault_credentials' = Keys
        /\ \A k \in Keys :
              (vault_credentials[k] # NoRow /\ vault_credentials'[k] # NoRow)
                  => updated_at'[k] >= updated_at[k]
      ]_vars

(***************************************************************************)
(* Primary Identity (primary-identity/app.js over db.js).                  *)
(***************************************************************************)
\* bootstrap, assign-app, remove-app and delegated requests a run may make
MaxPidOps == 3
\* requests a run may make when both users hold a token from the start
MaxCalls == 2
\* the clock stops here
MaxTime == 3601
\* the lifetime of a plugin token (generatePluginToken's expiresInSeconds)
expiresInSeconds == 3600
\* the clock is looked at when a token's lifetime has passed, or a second later
TickSteps == {expiresInSeconds, expiresInSeconds + 1}

\* the seeded users; the username stands for the row id
Users == {"admin", "testuser"}
NoUser == "none"
role(u) == IF u = "admin" THEN "admin" ELSE "user"

\* 'ptk_' + crypto.randomBytes(32): the n-th token issued is n; 0 is no token
Tokens == {1, 2}
NoToken == 0

\* appId values a request may carry: a seeded app, an app that is not in the
\* apps table, or none
UnknownApp == "app_x"
ReqAppIds == AppIds \cup {UnknownApp, ""}

\* fields objects a save request may carry ("fields" of the body)
SaveFields ==
    { [username |-> "u1", password |-> "pw1", role |-> "admin"],
      [username |-> "u1"] }

\* bodies of POST /api/vault/credentials: with a fields object, in the old
\* format (username, password), or with neither
SaveBodies ==
    { [appId |-> a, fields |-> <<f>>, username |-> "", password |-> ""] :
          a \in ReqAppIds, f \in SaveFields }
    \cup
    { [appId |-> a, fields |-> <<>>, username |-> u, password |-> "pw1"] :
          a \in ReqAppIds, u \in {"", "u1"} }

\* newPassword values of PUT /api/vault/password ("" is a missing one)
PutPasswords == {"p2", ""}

PidKeys == Users \X AppIds

\* a value of a column or property that JavaScript treats as false
Falsy(x) == x = ""

\* the property of a fields object, undefined ("") when it has none
Prop(f, k) == IF k \in DOMAIN f THEN f[k] ELSE ""

SeedRow == [app_username |-> "testuser", app_password |-> "TestPass123!",
            extra_fields |-> <<>>]

\* no delegated call was handled in the last step
NoCall == [op |-> "none"]

PidInit ==
    /\ session = NoUser
    /\ plugin_tokens = {}
    /\ user_apps = {"testuser"} \X AppIds
    /\ pid_credentials =
           [k \in PidKeys |-> IF k[1] = "testuser" THEN <<SeedRow>> ELSE <<>>]
    /\ now = 0
    /\ issuedTo = [t \in Tokens |-> NoUser]
    /\ owned = [k \in PidKeys |->
                   IF k[1] = "testuser"
                     THEN <<[username |-> "testuser", password |-> "TestPass123!"]>>
                     ELSE <<>>]
    /\ pcall = NoCall
    /\ pidBudget = MaxPidOps

(***************************************************************************)
(* db.js                                                                   *)
(***************************************************************************)
\* mutant: the mapping of any user to the app counts
isUserAllowedApp_AnyUser(userId, appId) ==
    /\ appId \in AppIds
    /\ \E u \in Users : <<u, appId>> \in user_apps

\* SELECT id FROM apps WHERE appId = ?, then
\* SELECT * FROM user_apps WHERE user_id = ? AND app_id = ?
isUserAllowedApp(userId, appId) ==
    /\ appId \in AppIds
    /\ <<userId, appId>> \in user_apps

\* SELECT * FROM plugin_tokens WHERE token = ?
TokenRows(token) == { r \in plugin_tokens : r.token = token }

\* mutant: the user of the row is not looked up
introspectToken_NoUserCheck(token) ==
    IF TokenRows(token) = {}
      THEN [active |-> FALSE, error |-> "Token not found", userId |-> NoUser,
            tokens |-> plugin_tokens]
      ELSE LET row == CHOOSE r \in TokenRows(token) : TRUE
           IN  IF now > row.expires_at
                 THEN [active |-> FALSE, error |-> "Token expired",
                       userId |-> NoUser, tokens |-> plugin_tokens \ {row}]
                 ELSE [active |-> TRUE, error |-> "", userId |-> row.user_id,
                       tokens |-> plugin_tokens]

\* the result of introspectToken and the table it leaves (an expired row is
\* deleted; findUserById(row.user_id) finds no row of a deleted user)
introspectToken(token) ==
    IF TokenRows(token) = {}
      THEN [active |-> FALSE, error |-> "Token not found", userId |-> NoUser,
            tokens |-> plugin_tokens]
      ELSE LET row == CHOOSE r \in TokenRows(token) : TRUE
           IN  IF now > row.expires_at
                 THEN [active |-> FALSE, error |-> "Token expired",
                       userId |-> NoUser, tokens |-> plugin_tokens \ {row}]
               ELSE IF row.user_id \notin users
                 THEN [active |-> FALSE, error |-> "User not found",
                       userId |-> NoUser, tokens |-> plugin_tokens]
                 ELSE [active |-> TRUE, error |-> "", userId |-> row.user_id,
                       tokens |-> plugin_tokens]

\* mutant: the DELETE matches no row
revokeUserTokens_None(userId) == plugin_tokens

\* DELETE FROM plugin_tokens WHERE user_id = ?
revokeUserTokens(userId) == { r \in plugin_tokens : r.user_id # userId }

\* the object getVaultCredentials builds from a row: username and password
\* columns, with the parsed extra_fields assigned over them
RowToFields(row) ==
    LET extra == IF row.extra_fields = <<>> THEN <<>>
                 ELSE JSONparse(row.extra_fields[1])
    IN  [k \in {"username", "password"} \cup DOMAIN extra |->
            IF k \in DOMAIN extra THEN extra[k]
            ELSE IF k = "username" THEN row.app_username
            ELSE row.app_password]

\* mutant: extra_fields is not written
FieldsToRow_CoreOnly(fields) ==
    [app_username |-> fields.username,
     app_password |-> fields.password,
     extra_fields |-> <<>>]

\* the row saveVaultCredentials inserts: const { username, password,
\* ...extraFields } = fields; extra_fields is NULL when there is no extra one
FieldsToRow(fields) ==
    LET extraKeys == (DOMAIN fields) \ {"username", "password"}
    IN  [app_username |-> fields.username,
         app_password |-> fields.password,
         extra_fields |-> IF extraKeys = {} THEN <<>>
                          ELSE <<JSONstringify([k \in extraKeys |-> fields[k]])>>]

\* mutant: WHERE app_id = ? without the user_id
getVaultCredentials_AnyUser(userId, appId) ==
    IF appId \notin AppIds THEN <<>>
    ELSE IF \A u \in Users : pid_credentials[<<u, appId>>] = <<>> THEN <<>>
    ELSE LET u == CHOOSE u \in Users : pid_credentials[<<u, appId>>] # <<>>
         IN  <<[fields |-> RowToFields(pid_credentials[<<u, appId>>][1])]>>

\* <<>> for null, else <<{ fields }>>
getVaultCredentials(userId, appId) ==
    IF appId \notin AppIds THEN <<>>
    ELSE IF pid_credentials[<<userId, appId>>] = <<>> THEN <<>>
    ELSE <<[fields |-> RowToFields(pid_credentials[<<userId, appId>>][1])]>>

\* the result of saveVaultCredentials and the table it leaves (DELETE of the
\* user's row for the app, then INSERT)
saveVaultCredentials(userId, appId, fields) ==
    IF appId \notin AppIds
      THEN [success |-> FALSE, error |-> "App not found", rows |-> pid_credentials]
    ELSE IF Falsy(Prop(fields, "username")) \/ Falsy(Prop(fields, "password"))
      THEN [success |-> FALSE, error |-> "username and password are required",
            rows |-> pid_credentials]
    ELSE [success |-> TRUE, error |-> "",
          rows |-> [pid_credentials EXCEPT ![<<userId, appId>>] =
                        <<FieldsToRow(fields)>>]]

\* { ...existing.fields, password: newPassword } saved over the row
updateVaultPassword(userId, appId, newPassword) ==
    LET existing == getVaultCredentials(userId, appId)
    IN  IF existing = <<>>
          THEN [success |-> FALSE, error |-> "No credentials found",
                rows |-> pid_credentials]
          ELSE saveVaultCredentials(userId, appId,
                   [k \in (DOMAIN existing[1].fields) \cup {"password"} |->
                       IF k = "password" THEN newPassword
                       ELSE existing[1].fields[k]])

(***************************************************************************)
(* app.js: the delegated credential API.  A handler yields its response,   *)
(* the tables it leaves and the credential keys its db calls were made on. *)
(***************************************************************************)
Reply(s, body, tokens, rows, touched) ==
    [status |-> s, body |-> body, tokens |-> tokens, rows |-> rows,
     touched |-> touched]

\* the middleware: 401 without a Bearer header or with an inactive token
requireBearerToken(token) ==
    IF token = NoToken
      THEN [active |-> FALSE, error |-> "Missing or invalid Authorization header",
            userId |-> NoUser, tokens |-> plugin_tokens]
      ELSE introspectToken(token)

\* GET /api/vault/credentials?appId=
GetCredentials(token, appId) ==
    LET tokenData == requireBearerToken(token)
        userId == tokenData.userId
        credentials == getVaultCredentials(userId, appId)
    IN  IF ~tokenData.active
          THEN Reply(401, [error |-> tokenData.error], tokenData.tokens,
                     pid_credentials, {})
        ELSE IF Falsy(appId)
          THEN Reply(400, [error |-> "appId query parameter is required"],
                     tokenData.tokens, pid_credentials, {})
        ELSE IF ~isUserAllowedApp(userId, appId)
          THEN Reply(403, [error |-> "User not authorized for this app"],
                     tokenData.tokens, pid_credentials, {})
        ELSE IF credentials = <<>>
          THEN Reply(404, [error |-> "No credentials found for this app"],
                     tokenData.tokens, pid_credentials, {<<userId, appId>>})
        ELSE Reply(200, [appId |-> appId, fields |-> credentials[1].fields],
                   tokenData.tokens, pid_credentials, {<<userId, appId>>})

\* let credentialFields = fields, or the old format converted; <<>> if neither
CredentialFields(body) ==
    IF body.fields # <<>> THEN body.fields
    ELSE IF ~Falsy(body.username) /\ ~Falsy(body.password)
      THEN <<[username |-> body.username, password |-> body.password]>>
    ELSE <<>>

\* the 400 test of POST /api/vault/credentials
SaveBodyOk(body) ==
    /\ ~Falsy(body.appId)
    /\ CredentialFields(body) # <<>>
    /\ ~Falsy(Prop(CredentialFields(body)[1], "username"))
    /\ ~Falsy(Prop(CredentialFields(body)[1], "password"))

\* POST /api/vault/credentials
PostCredentials(token, body) ==
    LET tokenData == requireBearerToken(token)
        userId == tokenData.userId
        result == saveVaultCredentials(userId, body.appId, CredentialFields(body)[1])
    IN  IF ~tokenData.active
          THEN Reply(401, [error |-> tokenData.error], tokenData.tokens,
                     pid_credentials, {})
        ELSE IF ~SaveBodyOk(body)
          THEN Reply(400, [error |-> "appId and fields (with username, password) are required"],
                     tokenData.tokens, pid_credentials, {})
        ELSE IF ~isUserAllowedApp(userId, body.appId)
          THEN Reply(403, [error |-> "User not authorized for this app"],
                     tokenData.tokens, pid_credentials, {})
        ELSE IF ~result.success
          THEN Reply(400, [error |-> result.error], tokenData.tokens,
                     result.rows, {<<userId, body.appId>>})
        ELSE Reply(200, [success |-> TRUE, message |-> "Credentials saved"],
                   tokenData.tokens, result.rows, {<<userId, body.appId>>})

\* PUT /api/vault/password
PutPassword(token, appId, newPassword) ==
    LET tokenData == requireBearerToken(token)
        userId == tokenData.userId
        result == updateVaultPassword(userId, appId, newPassword)
    IN  IF ~tokenData.active
          THEN Reply(401, [error |-> tokenData.error], tokenData.tokens,
                     pid_credentials, {})
        ELSE IF Falsy(appId) \/ Falsy(newPassword)
          THEN Reply(400, [error |-> "appId and newPassword are required"],
                     tokenData.tokens, pid_credentials, {})
        ELSE IF ~isUserAllowedApp(userId, appId)
          THEN Reply(403, [error |-> "User not authorized for this app"],
                     tokenData.tokens, pid_credentials, {})
        ELSE IF ~result.success
          THEN Reply(400, [error |-> result.error], tokenData.tokens,
                     result.rows, {<<userId, appId>>})
        ELSE Reply(200, [success |-> TRUE, message |-> "Password updated"],
                   tokenData.tokens, result.rows, {<<userId, appId>>})

(***************************************************************************)
(* History of the delegated calls.                                         *)
(***************************************************************************)
\* what a token presented now is: not sent, not in the table, past its
\* expires_at, or valid
TokenState(token) ==
    IF token = NoToken THEN "missing"
    ELSE IF TokenRows(token) = {} THEN "unknown"
    ELSE IF \A r \in TokenRows(token) : now > r.expires_at THEN "expired"
    ELSE "valid"

\* the user a token was issued to (NoUser for no token)
OwnerOf(token) == IF token \in Tokens THEN issuedTo[token] ELSE NoUser

\* the record of a delegated call: the request, what the token and the
\* mapping were when it arrived, the response, and the credential rows it
\* changed
CallRecord(op, token, appId, wellFormed, reply) ==
    [op |-> op, token |-> token, appId |-> appId,
     tokenState |-> TokenState(token), owner |-> OwnerOf(token),
     assigned |-> <<OwnerOf(token), appId>> \in user_apps,
     wellFormed |-> wellFormed,
     status |-> reply.status, body |-> reply.body, touched |-> reply.touched,
     changed |-> { k \in PidKeys : reply.rows[k] # pid_credentials[k] }]

\* the effect of a delegated call on the tables
Deliver(reply) ==
    /\ pidBudget > 0
    /\ pidBudget' = pidBudget - 1
    /\ plugin_tokens' = reply.tokens
    /\ pid_credentials' = reply.rows
    /\ UNCHANGED <<session, user_apps, now, issuedTo>>

\* a client calls GET /api/vault/credentials
CallGet(token, appId) ==
    LET reply == GetCredentials(token, appId)
    IN  /\ Deliver(reply)
        /\ pcall' = CallRecord("get", token, appId, ~Falsy(appId), reply)
        /\ UNCHANGED owned

\* a client calls POST /api/vault/credentials
CallPost(token, body) ==
    LET reply == PostCredentials(token, body)
    IN  /\ Deliver(reply)
        /\ pcall' = CallRecord("post", token, body.appId, SaveBodyOk(body), reply)
        /\ owned' = IF reply.status = 200
                      THEN [owned EXCEPT ![<<OwnerOf(token), body.appId>>] =
                                CredentialFields(body)]
                      ELSE owned

\* a client calls PUT /api/vault/password
CallPut(token, appId, newPassword) ==
    LET reply == PutPassword(token, appId, newPassword)
    IN  /\ Deliver(reply)
        /\ pcall' = CallRecord("put", token, appId,
                               ~Falsy(appId) /\ ~Falsy(newPassword), reply)
        /\ owned' = IF reply.status = 200
                      THEN [owned EXCEPT ![<<OwnerOf(token), appId>>] =
                                <<[@[1] EXCEPT !.password = newPassword]>>]
                      ELSE owned

(***************************************************************************)
(* app.js: the browser's routes.                                           *)
(***************************************************************************)
\* POST /login with a user's name and password
Login(u) ==
    /\ session' = u
    /\ pcall' = NoCall
    /\ UNCHANGED <<plugin_tokens, user_apps, pid_credentials, now, issuedTo,
                   owned, pidBudget>>

\* GET /logout
Logout ==
    /\ plugin_tokens' = IF session # NoUser THEN revokeUserTokens(session)
                        ELSE plugin_tokens
    /\ session' = NoUser
    /\ pcall' = NoCall
    /\ UNCHANGED <<user_apps, pid_credentials, now, issuedTo, owned,
                   pidBudget>>

\* the token generatePluginToken makes: one never issued before
FreshToken == CHOOSE t \in Tokens : issuedTo[t] = NoUser /\
                  \A s \in Tokens : issuedTo[s] = NoUser => t <= s

\* the plugin_tokens table after generatePluginToken(userId)
generatePluginToken(userId) ==
    plugin_tokens \cup {[token |-> FreshToken, user_id |-> userId,
                         expires_at |-> now + expiresInSeconds]}

\* POST /api/plugin/bootstrap from the browser (requireAuth)
Bootstrap ==
    /\ session # NoUser
    /\ \E t \in Tokens : issuedTo[t] = NoUser
    /\ pidBudget > 0
    /\ pidBudget' = pidBudget - 1
    /\ plugin_tokens' = generatePluginToken(session)
    /\ issuedTo' = [issuedTo EXCEPT ![FreshToken] = session]
    /\ pcall' = NoCall
    /\ UNCHANGED <<session, user_apps, pid_credentials, now, owned>>

\* POST /admin/assign-app (requireAdmin)
AssignApp(u, a) ==
    /\ session # NoUser
    /\ role(session) = "admin"
    /\ <<u, a>> \notin user_apps
    /\ pidBudget > 0
    /\ pidBudget' = pidBudget - 1
    /\ user_apps' = user_apps \cup {<<u, a>>}
    /\ pcall' = NoCall
    /\ UNCHANGED <<session, plugin_tokens, pid_credentials, now, issuedTo,
                   owned>>

\* POST /admin/remove-app (requireAdmin)
RemoveApp(u, a) ==
    /\ session # NoUser
    /\ role(session) = "admin"
    /\ <<u, a>> \in user_apps
    /\ pidBudget > 0
    /\ pidBudget' = pidBudget - 1
    /\ user_apps' = user_apps \ {<<u, a>>}
    /\ pcall' = NoCall
    /\ UNCHANGED <<session, plugin_tokens, pid_credentials, now, issuedTo,
                   owned>>

\* time passes
Tick(d) ==
    /\ now + d <= MaxTime
    /\ now' = now + d
    /\ pcall' = NoCall
    /\ UNCHANGED <<session, plugin_tokens, user_apps, pid_credentials, issuedTo,
                   owned, pidBudget>>

\* Primary Identity after the admin assigned itself every app and both users
\* logged in and bootstrapped, the testuser last
PidTwoTokensInit ==
    /\ session = "testuser"
    /\ plugin_tokens = {[token |-> 1, user_id |-> "admin",
                         expires_at |-> expiresInSeconds],
                        [token |-> 2, user_id |-> "testuser",
                         expires_at |-> expiresInSeconds]}
    /\ user_apps = Users \X AppIds
    /\ pid_credentials =
           [k \in PidKeys |-> IF k[1] = "testuser" THEN <<SeedRow>> ELSE <<>>]
    /\ now = 0
    /\ issuedTo = [t \in Tokens |-> IF t = 1 THEN "admin" ELSE "testuser"]
    /\ owned = [k \in PidKeys |->
                   IF k[1] = "testuser"
                     THEN <<[username |-> "testuser", password |-> "TestPass123!"]>>
                     ELSE <<>>]
    /\ pcall = NoCall
    /\ pidBudget = MaxCalls

\* the requests of a run in which both users hold a token
PidCallsNext ==
    \/ \E u \in Users : Login(u)
         /\ PidOnly
    \/ Logout
         /\ PidOnly
    \/ \E u \in Users, a \in AppIds : AssignApp(u, a)
         /\ PidOnly
    \/ \E u \in Users, a \in AppIds : RemoveApp(u, a)
         /\ PidOnly
    \/ \E t \in Tokens \cup {NoToken}, a \in ReqAppIds : CallGet(t, a)
         /\ PidOnly
    \/ \E t \in Tokens \cup {NoToken}, b \in SaveBodies : CallPost(t, b)
         /\ PidOnly
    \/ \E t \in Tokens \cup {NoToken}, a \in ReqAppIds, np \in PutPasswords :
           CallPut(t, a, np)
         /\ PidOnly

PidNext ==
    \/ \E u \in Users : Login(u)
         /\ PidOnly
    \/ Logout
         /\ PidOnly
    \/ Bootstrap
         /\ PidOnly
    \/ \E u \in Users, a \in AppIds : AssignApp(u, a)
         /\ PidOnly
    \/ \E u \in Users, a \in AppIds : RemoveApp(u, a)
         /\ PidOnly
    \/ \E d \in TickSteps : Tick(d)
         /\ PidOnly
    \/ \E t \in Tokens \cup {NoToken}, a \in ReqAppIds : CallGet(t, a)
         /\ PidOnly
    \/ \E t \in Tokens \cup {NoToken}, b \in SaveBodies : CallPost(t, b)
         /\ PidOnly
    \/ \E t \in Tokens \cup {NoToken}, a \in ReqAppIds, np \in PutPasswords :
           CallPut(t, a, np)
         /\ PidOnly

(***************************************************************************)
(* The extension's background script (sso-extension/background.js).  A     *)
(* message handler runs between its awaits without interruption; each      *)
(* fetch is answered by Primary Identity in a step of its own.             *)
(***************************************************************************)
\* messages the background script handles in one run
MaxMsgs == 3

\* the handlers that may be in flight at once
Handlers == {"h1", "h2"}

\* origins a page may send from: the origin of app_a, and one of no app
\* (an app's origin is written as its appId)
Origins == {"app_a", "other"}

\* request.action of a message
Actions == {"getCredentials", "saveCredentials", "updatePassword", "ping"}

\* request.fields of a saveCredentials message, request.newPassword of an
\* updatePassword message
LearnedFields == [username |-> "u1", password |-> "pw1", role |-> "admin"]
ChangedPassword == "p2"

\* let state = { pluginToken: null, expiresAt: null, apps: [],
\*               currentUserId: null, currentUsername: null }
NoState == [pluginToken |-> NoToken, expiresAt |-> 0, apps |-> {},
            currentUserId |-> NoUser, currentUsername |-> NoUser]

NoMsg == [action |-> "none", origin |-> "none"]
NoNet == [kind |-> "none"]
\* no reply was sent in the last step
NoOut == [sent |-> FALSE]
NoTrack == [ready |-> FALSE, sessionUser |-> NoUser, heldUser |-> NoUser,
            prev |-> NoUser, token |-> NoToken]

BgInit ==
    /\ state = NoState
    /\ bpc = [h \in Handlers |-> "idle"]
    /\ bmsg = [h \in Handlers |-> NoMsg]
    /\ bnet = [h \in Handlers |-> NoNet]
    /\ bout = NoOut
    /\ btrack = [h \in Handlers |-> NoTrack]
    /\ prevUser = NoUser
    /\ bgBudget = MaxMsgs

\* what the rest of a step leaves alone
PidQuiet == UNCHANGED <<session, plugin_tokens, user_apps, pid_credentials, now,
                        issuedTo, owned, pidBudget>> /\ pcall' = NoCall
PidTablesQuiet == UNCHANGED <<session, user_apps, now, issuedTo, owned, pidBudget>>
                  /\ pcall' = NoCall

\* mutant: every origin passes
isAllowedOrigin_Any(st, origin) == TRUE

\* st.apps.some(a => a.origin === origin), st being the state read
isAllowedOrigin(st, origin) == origin \in st.apps

\* state.apps.find(a => a.origin === origin), its appId or null ("")
getAppIdByOrigin(st, origin) == IF origin \in st.apps THEN origin ELSE ""

\* the loginSchema of the app of the origin in state.apps, or null ("")
getLoginSchemaByOrigin(st, origin) == IF origin \in st.apps THEN origin ELSE ""

\* mutant: the expiry is not looked at
isTokenValid_NoExpiry == state.pluginToken # NoToken

\* state.pluginToken && state.expiresAt && Date.now() < state.expiresAt
isTokenValid ==
    /\ state.pluginToken # NoToken
    /\ state.expiresAt # 0
    /\ now < state.expiresAt

\* sendResponse(reply): the handler ends; track is the handler's history
SendResponse(h, reply, track) ==
    /\ bout' = [sent |-> TRUE, reply |-> reply, msg |-> bmsg[h], track |-> track]
    /\ bpc' = [bpc EXCEPT ![h] = "idle"]
    /\ bnet' = [bnet EXCEPT ![h] = NoNet]
    /\ bmsg' = [bmsg EXCEPT ![h] = NoMsg]
    /\ btrack' = [btrack EXCEPT ![h] = NoTrack]

NotAuthenticated == [success |-> FALSE, error |-> "Not authenticated"]

\* chrome.runtime.onMessage: the handler starts; an action it knows calls
\* ensureReady, which calls checkSession, which fetches /api/session/status
OnMessage(h, action, origin) ==
    /\ bpc[h] = "idle"
    /\ bgBudget > 0
    /\ bgBudget' = bgBudget - 1
    /\ IF action = "ping"
         THEN /\ bout' = [sent |-> TRUE,
                          reply |-> [success |-> FALSE, error |-> "Unknown action"],
                          msg |-> [action |-> action, origin |-> origin],
                          track |-> NoTrack]
              /\ UNCHANGED <<bpc, bnet, bmsg>>
         ELSE /\ bpc' = [bpc EXCEPT ![h] = "session_wait"]
              /\ bnet' = [bnet EXCEPT ![h] = [kind |-> "request"]]
              /\ bmsg' = [bmsg EXCEPT ![h] = [action |-> action, origin |-> origin]]
              /\ bout' = NoOut
    /\ UNCHANGED <<state, btrack, prevUser>>
    /\ PidQuiet

\* Primary Identity answers GET /api/session/status
SessionStatus(h) ==
    /\ bpc[h] = "session_wait"
    /\ bpc' = [bpc EXCEPT ![h] = "session_resp"]
    /\ bnet' = [bnet EXCEPT ![h] =
                   [kind |-> "response", ok |-> session # NoUser, userId |-> session]]
    /\ bout' = NoOut
    /\ UNCHANGED <<state, bmsg, btrack, prevUser, bgBudget>>
    /\ PidQuiet

\* a fetch fails (the service is unreachable): the awaiting function's catch
FetchFails(h) ==
    /\ bpc[h] \in {"session_wait", "bootstrap_wait", "api_wait"}
    /\ bpc' = [bpc EXCEPT ![h] =
                  CASE bpc[h] = "session_wait" -> "session_resp"
                    [] bpc[h] = "bootstrap_wait" -> "bootstrap_resp"
                    [] OTHER -> "api_resp"]
    /\ bnet' = [bnet EXCEPT ![h] = [kind |-> "error", ok |-> FALSE]]
    /\ bout' = NoOut
    /\ UNCHANGED <<state, bmsg, btrack, prevUser, bgBudget>>
    /\ PidQuiet

\* what the handler does once ensureReady() returned true, with the state st
\* it finds: the checks on the origin, then the fetch of the credential API
\* with st.pluginToken (fetchCredentials, saveCredentials, updatePassword
\* return at once without a token)
Serve(h, st, sessionUser, prev) ==
    LET m == bmsg[h]
        appId == getAppIdByOrigin(st, m.origin)
        request == [kind |-> "request", token |-> st.pluginToken, appId |-> appId]
        track == [ready |-> TRUE, sessionUser |-> sessionUser,
                  heldUser |-> st.currentUserId, prev |-> prev,
                  token |-> st.pluginToken]
    IN  IF m.action = "getCredentials" /\ ~isAllowedOrigin(st, m.origin)
          THEN SendResponse(h, [success |-> FALSE, error |-> "Origin not allowed"],
                            track)
        ELSE IF appId = ""
          THEN SendResponse(h, [success |-> FALSE, error |-> "App not found"], track)
        ELSE IF st.pluginToken = NoToken
          THEN SendResponse(h,
                   IF m.action = "getCredentials"
                     THEN [success |-> FALSE, needsLearning |-> TRUE,
                           loginSchema |-> getLoginSchemaByOrigin(st, m.origin)]
                     ELSE [success |-> FALSE],
                   track)
        ELSE /\ bpc' = [bpc EXCEPT ![h] = "api_wait"]
             /\ bnet' = [bnet EXCEPT ![h] = request]
             /\ btrack' = [btrack EXCEPT ![h] = track]
             /\ bout' = NoOut
             /\ UNCHANGED bmsg

\* mutant: nothing is cleared when the user is not logged in
DisabledState_Keep == state

\* the state ensureReady leaves when checkSession() returned false
DisabledState == [state EXCEPT !.pluginToken = NoToken, !.apps = {}]

\* ensureReady after checkSession() returned
AfterSession(h) ==
    /\ bpc[h] = "session_resp"
    /\ IF ~bnet[h].ok
         THEN /\ state' = DisabledState
              /\ SendResponse(h, NotAuthenticated, NoTrack)
       ELSE IF ~isTokenValid
         THEN /\ bpc' = [bpc EXCEPT ![h] = "bootstrap_wait"]
              /\ bnet' = [bnet EXCEPT ![h] = [kind |-> "request"]]
              /\ bout' = NoOut
              /\ UNCHANGED <<state, bmsg, btrack>>
       ELSE /\ Serve(h, state, bnet[h].userId, prevUser)
            /\ UNCHANGED state
    /\ UNCHANGED <<prevUser, bgBudget>>
    /\ PidQuiet

\* Primary Identity answers POST /api/plugin/bootstrap: without a session
\* requireAuth redirects to the login page (a 200 that is not JSON), with one
\* it issues a token and returns it with the user and the user's apps
PluginBootstrap(h) ==
    /\ bpc[h] = "bootstrap_wait"
    /\ bpc' = [bpc EXCEPT ![h] = "bootstrap_resp"]
    /\ IF session = NoUser
         THEN /\ bnet' = [bnet EXCEPT ![h] = [kind |-> "html", ok |-> TRUE]]
              /\ UNCHANGED <<plugin_tokens, issuedTo>>
         ELSE /\ \E t \in Tokens : issuedTo[t] = NoUser
              /\ plugin_tokens' = generatePluginToken(session)
              /\ issuedTo' = [issuedTo EXCEPT ![FreshToken] = session]
              /\ bnet' = [bnet EXCEPT ![h] =
                     [kind |-> "json", ok |-> TRUE, pluginToken |-> FreshToken,
                      expiresIn |-> expiresInSeconds, userId |-> session,
                      username |-> session,
                      apps |-> { a \in AppIds : <<session, a>> \in user_apps }]]
    /\ pcall' = NoCall
    /\ bout' = NoOut
    /\ UNCHANGED <<session, user_apps, pid_credentials, now, owned, pidBudget>>
    /\ UNCHANGED <<state, bmsg, btrack, prevUser, bgBudget>>

\* the user-switch test of bootstrap()
UserChanged(data) ==
    state.currentUserId # NoUser /\ state.currentUserId # data.userId

\* mutant: on a user switch the state is cleared and the function returns
\* before the new user's data is stored, except for the user fields
BootstrapState_KeepToken(data) ==
    [pluginToken |-> IF UserChanged(data) THEN state.pluginToken ELSE data.pluginToken,
     expiresAt |-> now + data.expiresIn,
     apps |-> data.apps,
     currentUserId |-> data.userId,
     currentUsername |-> data.username]

\* the state bootstrap() leaves: cleared on a user switch, then set from the
\* response
BootstrapState(data) ==
    LET cleared == IF UserChanged(data) THEN NoState ELSE state
    IN  [cleared EXCEPT !.pluginToken = data.pluginToken,
                        !.expiresAt = now + data.expiresIn,
                        !.apps = data.apps,
                        !.currentUserId = data.userId,
                        !.currentUsername = data.username]

\* bootstrap() after its fetch returned, and the rest of ensureReady
AfterBootstrap(h) ==
    /\ bpc[h] = "bootstrap_resp"
    /\ IF bnet[h].kind # "json"
         THEN /\ SendResponse(h, NotAuthenticated, NoTrack)
              /\ UNCHANGED <<state, prevUser>>
         ELSE /\ state' = BootstrapState(bnet[h])
              /\ prevUser' = IF UserChanged(bnet[h]) THEN state.currentUserId
                             ELSE prevUser
              /\ Serve(h, state', bnet[h].userId, prevUser')
    /\ UNCHANGED bgBudget
    /\ PidQuiet

\* the response of Primary Identity to the handler's credential request
ApiReply(h) ==
    LET m == bmsg[h]
        r == bnet[h]
    IN  CASE m.action = "getCredentials" -> GetCredentials(r.token, r.appId)
          [] m.action = "saveCredentials" ->
                 PostCredentials(r.token, [appId |-> r.appId, fields |-> <<LearnedFields>>,
                                           username |-> "", password |-> ""])
          [] OTHER -> PutPassword(r.token, r.appId, ChangedPassword)

\* Primary Identity answers the credential request
VaultApi(h) ==
    LET m == bmsg[h]
        r == bnet[h]
        reply == ApiReply(h)
        key == <<OwnerOf(r.token), r.appId>>
    IN  /\ bpc[h] = "api_wait"
        /\ bpc' = [bpc EXCEPT ![h] = "api_resp"]
        /\ plugin_tokens' = reply.tokens
        /\ pid_credentials' = reply.rows
        /\ owned' = IF reply.status # 200 \/ m.action = "getCredentials" THEN owned
                    ELSE IF m.action = "saveCredentials"
                      THEN [owned EXCEPT ![key] = <<LearnedFields>>]
                    ELSE [owned EXCEPT ![key] =
                              <<[@[1] EXCEPT !.password = ChangedPassword]>>]
        /\ bnet' = [bnet EXCEPT ![h] =
                       [kind |-> "response", ok |-> reply.status = 200,
                        status |-> reply.status, body |-> reply.body,
                        rowsOf |-> { k[1] : k \in reply.touched }]]
        /\ PidTablesQuiet
        /\ bout' = NoOut
        /\ UNCHANGED <<state, bmsg, btrack, prevUser, bgBudget>>

\* the handler after fetchCredentials, saveCredentials or updatePassword
\* returned
AfterApi(h) ==
    LET m == bmsg[h]
        r == bnet[h]
        loginSchema == getLoginSchemaByOrigin(state, m.origin)
    IN  /\ bpc[h] = "api_resp"
        /\ SendResponse(h,
               IF m.action # "getCredentials" THEN [success |-> r.ok]
               ELSE IF ~r.ok
                 THEN [success |-> FALSE, needsLearning |-> TRUE,
                       loginSchema |-> loginSchema]
               ELSE [success |-> TRUE, credentials |-> r.body,
                     loginSchema |-> loginSchema, rowsOf |-> r.rowsOf],
               btrack[h])
        /\ UNCHANGED <<state, prevUser, bgBudget>>
        /\ PidQuiet

BgQuiet == UNCHANGED <<state, bpc, bmsg, bnet, btrack, prevUser, bgBudget>>
           /\ bout' = NoOut

\* a step of the message handler h, or of Primary Identity answering it
BgStep(h) ==
    \/ \E a \in Actions, o \in Origins : OnMessage(h, a, o)
         /\ BgOnly
    \/ SessionStatus(h)
         /\ BgOnly
    \/ FetchFails(h)
         /\ BgOnly
    \/ AfterSession(h)
         /\ BgOnly
    \/ PluginBootstrap(h)
         /\ BgOnly
    \/ AfterBootstrap(h)
         /\ BgOnly
    \/ VaultApi(h)
         /\ BgOnly
    \/ AfterApi(h)
         /\ BgOnly

\* the user at the browser, and the clock
BrowserStep ==
    \/ \E u \in Users : Login(u) /\ BgQuiet
         /\ BgOnly
    \/ Logout /\ BgQuiet
         /\ BgOnly
    \/ \E d \in TickSteps : Tick(d) /\ BgQuiet
         /\ BgOnly

\* one message at a time
BgNext == BgStep("h1") \/ BrowserStep

\* messages handled at once
BgRaceNext == (\E h \in Handlers : BgStep(h)) \/ BrowserStep

\* two pages asking for credentials at once: the steps of BgStep for the
\* getCredentials message
GetStep(h) ==
    \/ \E o \in Origins : OnMessage(h, "getCredentials", o)
         /\ BgOnly
    \/ SessionStatus(h)
         /\ BgOnly
    \/ FetchFails(h)
         /\ BgOnly
    \/ AfterSession(h)
         /\ BgOnly
    \/ PluginBootstrap(h)
         /\ BgOnly
    \/ AfterBootstrap(h)
         /\ BgOnly
    \/ VaultApi(h)
         /\ BgOnly
    \/ AfterApi(h)
         /\ BgOnly

BgGetRaceNext == (\E h \in Handlers : GetStep(h)) \/ BrowserStep

\* Primary Identity when the extension starts: the admin has assigned itself
\* the apps and saved a credential for app_a; nobody is logged in
PidSharedAppsInit ==
    /\ session = NoUser
    /\ plugin_tokens = {}
    /\ user_apps = Users \X AppIds
    /\ pid_credentials =
           [k \in PidKeys |->
               IF k[1] = "testuser" THEN <<SeedRow>>
               ELSE IF k[2] = "app_a" THEN <<FieldsToRow(LearnedFields)>>
               ELSE <<>>]
    /\ now = 0
    /\ issuedTo = [t \in Tokens |-> NoUser]
    /\ owned = [k \in PidKeys |->
                   IF k[1] = "testuser"
                     THEN <<[username |-> "testuser", password |-> "TestPass123!"]>>
                   ELSE IF k[2] = "app_a" THEN <<LearnedFields>>
                   ELSE <<>>]
    /\ pcall = NoCall
    /\ pidBudget = 0

(***************************************************************************)
(* Properties of Primary Identity's delegated credential API.              *)
(***************************************************************************)
\* the fields stored under a key, as getVaultCredentials reads them
Stored(k) ==
    IF pid_credentials[k] = <<>> THEN <<>>
    ELSE <<RowToFields(pid_credentials[k][1])>>

\* C9: the credentials stored for a user and an app are always the ones last
\* saved or updated with a token of that user (or seeded for the user): a call
\* with another user's token never changes them.  A successful call with token
\* T for app a changes no row but the one of T's owner and a, and a successful
\* GET returns the fields stored for T's owner and a.
C9_NoCrossUserAccess ==
    /\ \A k \in PidKeys : Stored(k) = owned[k]
    /\ (pcall.op # "none" /\ pcall.status = 200) =>
          /\ pcall.changed \subseteq {<<pcall.owner, pcall.appId>>}
          /\ pcall.touched = {<<pcall.owner, pcall.appId>>}
          /\ pcall.op = "get" =>
                <<pcall.body.fields>> = owned[<<pcall.owner, pcall.appId>>]

C9_Witness ==
    /\ pcall.op = "get"
    /\ pcall.status = 200
    /\ pcall.owner = "testuser"
    /\ owned[<<"admin", pcall.appId>>] # <<>>
    /\ owned[<<"admin", pcall.appId>>] # owned[<<"testuser", pcall.appId>>]
    /\ "role" \in DOMAIN owned[<<"admin", pcall.appId>>][1]

\* the fields getVaultCredentials reads under key k of the table rows
StoredIn(rows, k) ==
    IF rows[k] = <<>> THEN <<>> ELSE <<RowToFields(rows[k][1])>>

\* C32: a POST of credentials answered 200 leaves, for the caller and the app,
\* exactly the fields of the request, every extra attribute included; a GET
\* answered 200 returns exactly the fields stored; a PUT of a password
\* answered 200 changes the password and no other attribute.
C32_SaveGetRoundTrip ==
    [][ LET k == <<pcall'.owner, pcall'.appId>>
        IN  (pcall'.op # "none" /\ pcall'.status = 200) =>
              /\ pcall'.op = "post" =>
                    /\ StoredIn(pid_credentials', k) = owned'[k]
                    /\ ~Falsy(StoredIn(pid_credentials', k)[1].username)
                    /\ ~Falsy(StoredIn(pid_credentials', k)[1].password)
              /\ pcall'.op = "get" =>
                    /\ <<pcall'.body.fields>> = StoredIn(pid_credentials, k)
                    /\ StoredIn(pid_credentials', k) = StoredIn(pid_credentials, k)
              /\ pcall'.op = "put" =>
                    /\ DOMAIN StoredIn(pid_credentials', k)[1] = DOMAIN StoredIn(pid_credentials, k)[1]
                    /\ StoredIn(pid_credentials', k)[1].password = owned'[k][1].password
                    /\ StoredIn(pid_credentials', k)[1].password \in PutPasswords \ {""}
                    /\ \A a \in DOMAIN StoredIn(pid_credentials, k)[1] \ {"password"} :
                          StoredIn(pid_credentials', k)[1][a] = StoredIn(pid_credentials, k)[1][a]
      ]_vars

C32_Witness ==
    /\ pcall.op = "get"
    /\ pcall.status = 200
    /\ pcall.owner = "admin"
    /\ "role" \in DOMAIN pcall.body.fields
    /\ <<pcall.body.fields>> = owned[<<"admin", pcall.appId>>]

\* a delegated call that was refused before any credential was read, written
\* or updated
RefusedUntouched(s) ==
    /\ pcall.status = s
    /\ pcall.touched = {}
    /\ pcall.changed = {}

\* C10 as stated: a call with a missing, unknown or expired token is answered
\* 401 and a call with a valid token for an application not assigned to the
\* token's owner is answered 403, in both cases with no credential read,
\* written or updated.
C10_UnassignedAlways403 ==
    pcall.op # "none" =>
        /\ pcall.tokenState # "valid" => RefusedUntouched(401)
        /\ (pcall.tokenState = "valid" /\ ~pcall.assigned /\ pcall.appId # "")
              => RefusedUntouched(403)

\* C10 (amended): a call with a missing, unknown or expired token is answered
\* 401; a call with a valid token for an application not assigned to the
\* token's owner is answered 403 when the request is well-formed and 400 when
\* it is malformed (no appId, a save without username and password, an update
\* without newPassword); in all these cases no credential is read, written or
\* updated.
C10_AuthBeforeStorage ==
    pcall.op # "none" =>
        /\ pcall.tokenState # "valid" => RefusedUntouched(401)
        /\ (pcall.tokenState = "valid" /\ ~pcall.assigned) =>
              RefusedUntouched(IF pcall.wellFormed THEN 403 ELSE 400)

C10_Witness ==
    /\ pcall.op = "post"
    /\ pcall.status = 403
    /\ pcall.owner = "testuser"
    /\ pcall.appId \in AppIds
    /\ pid_credentials[<<"testuser", pcall.appId>>] # <<>>

\* the rows of a token in the table after the step
TokenRowsAfter(t) == { r \in plugin_tokens' : r.token = t }

\* C13: a row of plugin_tokens is created only by a bootstrap, for the
\* logged-in user, a token never issued before and expires_at 3600 s ahead; a
\* logout removes every row of the user logged in; a token whose row is gone
\* never gets a row again; a delegated call is answered 401 when its token
\* has no row or is presented after expires_at (the row is then removed),
\* and is not answered 401 while the row exists and expires_at has not
\* passed.
C13_TokenLifetime ==
    [][ /\ \A t \in Tokens :
             /\ (TokenRows(t) = {} /\ TokenRowsAfter(t) # {}) =>
                   /\ issuedTo[t] = NoUser /\ session # NoUser
                   /\ TokenRowsAfter(t) =
                         {[token |-> t, user_id |-> session,
                           expires_at |-> now + expiresInSeconds]}
                   /\ issuedTo'[t] = session
             /\ (issuedTo[t] # NoUser /\ TokenRows(t) = {}) => TokenRowsAfter(t) = {}
             /\ TokenRowsAfter(t) \subseteq TokenRows(t) \/ TokenRows(t) = {}
        /\ (session # NoUser /\ session' = NoUser) =>
              \A r \in plugin_tokens' : r.user_id # session
        /\ pcall'.op # "none" =>
              LET rows == TokenRows(pcall'.token) IN
              /\ (rows = {} \/ \A r \in rows : now > r.expires_at) =>
                    /\ pcall'.status = 401
                    /\ \A r \in plugin_tokens' : r.token # pcall'.token
                    /\ pcall'.changed = {} /\ pcall'.touched = {}
              /\ (\E r \in rows : now <= r.expires_at) =>
                    /\ pcall'.status # 401
                    /\ plugin_tokens' = plugin_tokens
      ]_vars

\* a call with the token of a user who logged out is refused before the
\* token's expiry
C13_Witness ==
    /\ pcall.op = "get" /\ pcall.status = 401
    /\ pcall.owner = "testuser" /\ pcall.appId \in AppIds
    /\ pcall.tokenState = "unknown"
    /\ session = NoUser /\ now = 0

(***************************************************************************)
(* Properties of the background script.                                    *)
(***************************************************************************)
\* handler h takes the response of a bootstrap that reports another user than
\* the one the state holds
DetectsSwitch(h) ==
    /\ bpc[h] = "bootstrap_resp"
    /\ bpc'[h] # "bootstrap_resp"
    /\ bnet[h].kind = "json"
    /\ UserChanged(bnet[h])

\* a reply that hands credentials to a page
DeliversCredentials ==
    /\ bout.sent
    /\ bout.msg.action = "getCredentials"
    /\ bout.reply.success

\* no credential request sent after a user switch carries a token of the user
\* replaced at that switch, and no credential delivered for such a request is
\* a row of that user
NoCredentialOfPreviousUser ==
    /\ \A h \in Handlers :
          (btrack[h].ready /\ btrack[h].prev # NoUser) =>
             /\ OwnerOf(btrack[h].token) # btrack[h].prev
             /\ bnet[h].kind = "response" => btrack[h].prev \notin bnet[h].rowsOf
    /\ (DeliversCredentials /\ bout.track.prev # NoUser) =>
          bout.track.prev \notin bout.reply.rowsOf

\* C1: when a bootstrap response reports another user than the one held, the
\* step that takes it replaces the token, the application list and the user
\* by those of the response before the handler goes on (the old token and
\* list are gone), and no credential fetched after such a switch belongs to
\* the user that was replaced.
C1_SwitchClearsState ==
    [][ /\ \A h \in Handlers :
              DetectsSwitch(h) =>
                 /\ state'.pluginToken = bnet[h].pluginToken
                 /\ state'.pluginToken # state.pluginToken
                 /\ state'.apps = bnet[h].apps
                 /\ state'.currentUserId = bnet[h].userId
                 /\ state'.currentUsername = bnet[h].username
                 /\ prevUser' = state.currentUserId
        /\ NoCredentialOfPreviousUser'
      ]_vars

C1_Witness ==
    /\ DeliversCredentials
    /\ bout.track.prev = "testuser"
    /\ bout.reply.rowsOf = {"admin"}
    /\ bout.reply.credentials.fields = LearnedFields
    /\ state.currentUserId = "admin"

\* the actions that ask for or hand over a credential
CredentialActions == {"getCredentials", "saveCredentials", "updatePassword"}

\* handler h takes the answer of its session check, which found no session
FindsNoSession(h) ==
    /\ bpc[h] = "session_resp"
    /\ bpc'[h] # "session_resp"
    /\ ~bnet[h].ok

\* C12: a session check made while nobody is logged into Primary Identity
\* comes back negative; the handler that takes a negative session check
\* answers its getCredentials, saveCredentials or updatePassword message with
\* success false and 'Not authenticated', leaves the state without token and
\* with an empty app list, and ends without a credential API request; a
\* credential API request is only sent by a handler whose session check found
\* a user.
C12_FailsClosedWithoutSession ==
    [][ \A h \in Handlers :
          /\ (bpc[h] = "session_wait" /\ bpc'[h] = "session_resp"
                 /\ session = NoUser) => ~bnet'[h].ok
          /\ FindsNoSession(h) =>
                /\ bmsg[h].action \in CredentialActions
                /\ bout'.sent /\ bout'.msg = bmsg[h]
                /\ bout'.reply = [success |-> FALSE, error |-> "Not authenticated"]
                /\ state'.pluginToken = NoToken
                /\ state'.apps = {}
                /\ bpc'[h] = "idle" /\ bnet'[h] = NoNet
          /\ (bpc[h] # "api_wait" /\ bpc'[h] = "api_wait") =>
                /\ btrack'[h].ready
                /\ btrack'[h].sessionUser # NoUser
      ]_vars

\* after a logout a request of a page was refused and the token and app list
\* of the user who had been bootstrapped are gone
C12_Witness ==
    /\ bout.sent /\ bout.reply = NotAuthenticated
    /\ bout.msg.action = "updatePassword"
    /\ session = NoUser
    /\ state.currentUserId = "testuser"
    /\ state.pluginToken = NoToken /\ state.apps = {}
    /\ issuedTo[1] = "testuser"

\* the held token is missing or past its expiry
HeldTokenUnusable == state.pluginToken = NoToken \/ now >= state.expiresAt

\* handler h sends a credential request to Primary Identity
SendsApiRequest(h) == bpc[h] # "api_wait" /\ bpc'[h] = "api_wait"

\* C14: a handler whose session check found a user while the held token is
\* missing or past its expiry sends a bootstrap request and nothing else;
\* when the bootstrap answer arrives the token of the answer is stored and
\* the request is served with it (the page is not told 'Not authenticated');
\* every credential request carries the token held at that moment, which is
\* not past the expiry the coordinator recorded.
C14_RebootstrapBeforeForwarding ==
    [][ \A h \in Handlers :
          /\ (bpc[h] = "session_resp" /\ bpc'[h] # "session_resp" /\ bnet[h].ok
                 /\ HeldTokenUnusable) =>
                /\ bpc'[h] = "bootstrap_wait"
                /\ ~bout'.sent
                /\ state' = state
          /\ (bpc[h] = "bootstrap_resp" /\ bpc'[h] # "bootstrap_resp"
                 /\ bnet[h].kind = "json") =>
                /\ state'.pluginToken = bnet[h].pluginToken
                /\ state'.expiresAt = now + expiresInSeconds
                /\ IF bmsg[h].origin \in bnet[h].apps
                     THEN /\ SendsApiRequest(h)
                          /\ bnet'[h].token = bnet[h].pluginToken
                     ELSE /\ bout'.sent
                          /\ bout'.reply.error \in {"Origin not allowed", "App not found"}
          /\ SendsApiRequest(h) =>
                /\ bnet'[h].token = state'.pluginToken
                /\ state'.pluginToken # NoToken
                /\ now < state'.expiresAt
      ]_vars

\* testuser's first token expired, the next request bootstrapped again and
\* the page got its credentials
C14_Witness ==
    /\ DeliversCredentials
    /\ bout.track.token = 2
    /\ issuedTo[1] = "testuser" /\ issuedTo[2] = "testuser"
    /\ bout.reply.rowsOf = {"testuser"}
    /\ now >= expiresInSeconds

\* C17: a reply with needsLearning is sent only by a handler whose credential
\* fetch was answered 404; a fetch answered 401, 403 or 5xx, or one that
\* failed on the network, gets a reply without needsLearning.
C17_NeedsLearningOnlyOnNotFound ==
    [][ \A h \in Handlers :
          (bpc[h] = "api_resp" /\ bpc'[h] # "api_resp"
             /\ bmsg[h].action = "getCredentials") =>
             /\ bout'.sent
             /\ "needsLearning" \in DOMAIN bout'.reply =>
                   /\ bnet[h].kind = "response"
                   /\ bnet[h].status = 404
      ]_vars

\* handler h leaves ensureReady for a message whose origin is not in the
\* application list the state holds then
UnknownOriginChecked(h) ==
    /\ bpc[h] \in {"session_resp", "bootstrap_resp"}
    /\ bpc'[h] \notin {"session_resp", "bootstrap_resp", "bootstrap_wait"}
    /\ bmsg[h].action \in CredentialActions
    /\ bmsg[h].origin \notin state'.apps

\* C37 as stated: a getCredentials, saveCredentials or updatePassword message
\* whose origin is not in the cached application list is answered with the
\* failure 'Origin not allowed' or 'App not found', and no credential request
\* is sent for it.
C37_UnknownOriginRefused ==
    [][ \A h \in Handlers :
          /\ UnknownOriginChecked(h) =>
                /\ bout'.sent
                /\ bpc'[h] = "idle"
                /\ ~bout'.reply.success
                /\ bout'.reply.error \in {"Origin not allowed", "App not found"}
          /\ SendsApiRequest(h) => bmsg[h].origin \in state'.apps
      ]_vars

\* C37 (amended): such a message is answered with a failure and no credential
\* request is sent for it; the failure is 'Not authenticated' when the session
\* check or the bootstrap failed, and otherwise 'Origin not allowed' for
\* getCredentials and 'App not found' for saveCredentials and updatePassword.
C37_UnknownOriginNotServed ==
    [][ \A h \in Handlers :
          /\ UnknownOriginChecked(h) =>
                /\ bout'.sent
                /\ bpc'[h] = "idle"
                /\ ~bout'.reply.success
                /\ bout'.reply.error =
                      IF ~bout'.track.ready THEN "Not authenticated"
                      ELSE IF bmsg[h].action = "getCredentials"
                        THEN "Origin not allowed"
                      ELSE "App not found"
          /\ SendsApiRequest(h) => bmsg[h].origin \in state'.apps
      ]_vars

C37_Witness ==
    /\ bout.sent
    /\ bout.msg = [action |-> "saveCredentials", origin |-> "other"]
    /\ bout.track.ready
    /\ bout.reply = [success |-> FALSE, error |-> "App not found"]
    /\ state.apps = AppIds
    /\ state.pluginToken # NoToken

\* C34: with two handlers in flight at once, a credential handed to a page is a
\* row of the identity the coordinator holds when the reply is sent: a handler
\* that was in flight while another one detected an identity switch does not
\* deliver the credentials of the identity replaced, and the credentials
\* fetched with one identity's token are not sent with the login schema read
\* from another identity's application list.
C34_NoStaleDelivery ==
    DeliversCredentials => bout.reply.rowsOf = {state.currentUserId}

\* C2: whenever a handler goes on to serve a request (ensureReady returned
\* true), the user the state holds is the user logged into Primary Identity
\* that the handler's session check found, and a credential handed to a page
\* is a row of that user.
C2_DetectsUserChange ==
    /\ \A h \in Handlers :
          btrack[h].ready => btrack[h].heldUser = btrack[h].sessionUser
    /\ (bout.sent /\ bout.track.ready) =>
          bout.track.heldUser = bout.track.sessionUser
    /\ DeliversCredentials => bout.reply.rowsOf = {bout.track.sessionUser}

(***************************************************************************)
(* Primary Identity over the Vault Service: vaultClient.js and the         *)
(* deleteUser of db.js that cascades to the vault.                         *)
(***************************************************************************)
\* deleteUser calls of one run
MaxDeletes == 2

\* ids the admin page may post: the users and an id with no row
UnknownUser == "nobody"
DeleteIds == Users \cup {UnknownUser}

\* `vault_${user.id}`: admin has id 1, testuser id 2
VaultOf(u) == IF u = "admin" THEN "v1" ELSE "v2"

\* getVaultId: the vault_id of the row, null ("") without a row
getVaultId(userId) == IF userId \in users THEN VaultOf(userId) ELSE ""

\* the credential seedDatabase sends to the vault for every app of testuser
SeedFields == [username |-> "testuser", password |-> "TestPass123!"]

\* what fetch gives vaultRequest: a rejection (network failure), the abort of
\* the 5 s timer, or a response with a status and a body text
NetworkFailure == [kind |-> "network"]
Timeout == [kind |-> "timeout"]
HttpResponse(status, text) == [kind |-> "response", status |-> status, text |-> text]

\* res.json(body) of the Vault Service as it travels: the body serialized
VaultResponse(res) == HttpResponse(res.status, <<JSONstringify(res.body)>>)

\* a body that is not JSON (an HTML error page)
NotJson == <<>>

\* response.ok
ResponseOk(status) == status >= 200 /\ status <= 299

\* data.error || fallback
ErrorOr(data, fallback) ==
    IF "error" \in DOMAIN data /\ data.error # "" THEN data.error ELSE fallback

\* mutant: a 5xx of the vault is handed on with its own status
vaultRequest_PassStatus(o) ==
    IF o.kind = "timeout"
      THEN [success |-> FALSE, status |-> 503, error |-> "Vault service timeout"]
    ELSE IF o.kind = "network" \/ o.text = NotJson
      THEN [success |-> FALSE, status |-> 503, error |-> "Vault service unavailable"]
    ELSE LET data == JSONparse(o.text[1]) IN
         IF ResponseOk(o.status)
           THEN [success |-> TRUE, status |-> o.status, data |-> data]
         ELSE IF o.status = 404
           THEN [success |-> FALSE, status |-> 404, error |-> ErrorOr(data, "Not found")]
         ELSE [success |-> FALSE, status |-> o.status,
               error |-> ErrorOr(data, "Vault request failed")]

\* vaultRequest: the result object for what fetch gave; response.json()
\* throwing on a body that is not JSON lands in the catch block
vaultRequest(o) ==
    IF o.kind = "timeout"
      THEN [success |-> FALSE, status |-> 503, error |-> "Vault service timeout"]
    ELSE IF o.kind = "network" \/ o.text = NotJson
      THEN [success |-> FALSE, status |-> 503, error |-> "Vault service unavailable"]
    ELSE LET data == JSONparse(o.text[1]) IN
         IF ResponseOk(o.status)
           THEN [success |-> TRUE, status |-> o.status, data |-> data]
         ELSE IF o.status = 404
           THEN [success |-> FALSE, status |-> 404, error |-> ErrorOr(data, "Not found")]
         ELSE IF o.status >= 500
           THEN [success |-> FALSE, status |-> 502, error |-> "Vault internal error"]
         ELSE [success |-> FALSE, status |-> o.status,
               error |-> ErrorOr(data, "Vault request failed")]

NoDelete == [pc |-> "idle", id |-> "", vaultId |-> "", slot |-> "",
             result |-> [success |-> FALSE, error |-> ""]]

\* the database once seedDatabase returned: both users, every app assigned,
\* the seed writes to the vault sent and not awaited
DelInit ==
    /\ users = Users
    /\ seedPending = AppIds
    /\ del = NoDelete
    /\ delBudget = MaxDeletes

\* the admin is logged in and both users hold a plugin token
PidAdminInit ==
    /\ session = "admin"
    /\ plugin_tokens = {[token |-> 1, user_id |-> "admin",
                         expires_at |-> expiresInSeconds],
                        [token |-> 2, user_id |-> "testuser",
                         expires_at |-> expiresInSeconds]}
    /\ user_apps = Users \X AppIds
    /\ pid_credentials = [k \in PidKeys |-> <<>>]
    /\ now = 0
    /\ issuedTo = [t \in Tokens |-> IF t = 1 THEN "admin" ELSE "testuser"]
    /\ owned = [k \in PidKeys |-> <<>>]
    /\ pcall = NoCall
    /\ pidBudget = 0

\* the rows Primary Identity holds for a user
LocalRows(u) ==
    [user |-> u \in users,
     apps |-> { r \in user_apps : r[1] = u },
     tokens |-> { r \in plugin_tokens : r.user_id = u }]

NoLocalRows == [user |-> FALSE, apps |-> {}, tokens |-> {}]

\* mutant: the local rows are deleted whatever the vault answered
deleteUserLocal_IgnoreVault(id, vaultResult) ==
    [result |-> [success |-> TRUE, error |-> ""],
     users |-> users \ {id},
     user_apps |-> { r \in user_apps : r[1] # id },
     plugin_tokens |-> { r \in plugin_tokens : r.user_id # id }]

\* deleteUser after the vault call: failure leaves the tables, success runs
\* the three DELETE statements
deleteUserLocal(id, vaultResult) ==
    IF ~vaultResult.success
      THEN [result |-> [success |-> FALSE,
                        error |-> "Failed to delete vault credentials"],
            users |-> users, user_apps |-> user_apps,
            plugin_tokens |-> plugin_tokens]
      ELSE [result |-> [success |-> TRUE, error |-> ""],
            users |-> users \ {id},
            user_apps |-> { r \in user_apps : r[1] # id },
            plugin_tokens |-> { r \in plugin_tokens : r.user_id # id }]

\* deleteUser returns with the tables it leaves
DeleteUserReturns(id, r) ==
    /\ del' = [del EXCEPT !.pc = "returned", !.id = id, !.result = r.result]
    /\ users' = r.users
    /\ user_apps' = r.user_apps
    /\ plugin_tokens' = r.plugin_tokens
    /\ UNCHANGED <<session, pid_credentials, now, issuedTo, owned, pcall,
                   pidBudget, seedPending>>

\* POST /admin/users/:id/delete (requireAdmin) calling deleteUser up to its
\* await: an admin is refused, an id without vault_id skips the vault
DeleteUserStart(id) ==
    /\ session # NoUser /\ role(session) = "admin"
    /\ del.pc \in {"idle", "returned"}
    /\ delBudget > 0
    /\ delBudget' = delBudget - 1
    /\ IF id \in users /\ role(id) = "admin"
         THEN DeleteUserReturns(id,
                 [result |-> [success |-> FALSE, error |-> "Cannot delete admin users"],
                  users |-> users, user_apps |-> user_apps,
                  plugin_tokens |-> plugin_tokens])
       ELSE IF getVaultId(id) = ""
         THEN DeleteUserReturns(id, deleteUserLocal(id, [success |-> TRUE]))
       ELSE /\ del' = [NoDelete EXCEPT !.pc = "await", !.id = id,
                                        !.vaultId = getVaultId(id)]
            /\ UNCHANGED <<pidVars, users, seedPending>>
    /\ UNCHANGED <<vaultVars, bgVars, vcVars, pageVars, idVars, valVars>>

\* a vault request slot that holds no answer deleteUser still waits for
SlotFree(p) == ~(del.pc = "await" /\ del.slot = p)

\* the Vault Service runs the DELETE of the delete-vault request
DeleteVaultArrives(p) ==
    /\ del.pc = "await" /\ del.slot = ""
    /\ DeleteVaultRows(p, del.vaultId)
    /\ del' = [del EXCEPT !.slot = p]
    /\ UNCHANGED <<pidVars, bgVars, users, seedPending, delBudget, vcVars,
                   pageVars, idVars, valVars>>

\* the DELETE of the delete-vault request throws
DeleteVaultFails(p) ==
    /\ del.pc = "await" /\ del.slot = ""
    /\ FirstQueryError(p, [op |-> "delete-vault", vaultId |-> del.vaultId])
    /\ del' = [del EXCEPT !.slot = p]
    /\ UNCHANGED <<pidVars, bgVars, users, seedPending, delBudget, vcVars,
                   pageVars, idVars, valVars>>

\* the Vault Service runs the upsert of a seed write
SeedWriteArrives(p, a) ==
    /\ a \in seedPending
    /\ SlotFree(p)
    /\ WriteUpsert(p, VaultOf("testuser"), a, SeedFields)
    /\ seedPending' = seedPending \ {a}
    /\ UNCHANGED <<pidVars, bgVars, users, del, delBudget, vcVars, pageVars, idVars, valVars>>

\* deleteUser resumes with the answer of the Vault Service
DeleteUserResumes ==
    /\ del.pc = "await" /\ del.slot # "" /\ vpc[del.slot] = "done"
    /\ DeleteUserReturns(del.id,
          deleteUserLocal(del.id, vaultRequest(VaultResponse(vres[del.slot]))))
    /\ UNCHANGED <<vaultVars, bgVars, delBudget, vcVars, pageVars, idVars, valVars>>

\* the 5 s timer aborts the fetch before an answer came
DeleteUserTimeout ==
    /\ del.pc = "await"
    /\ IF del.slot = "" THEN TRUE ELSE vpc[del.slot] # "done"
    /\ DeleteUserReturns(del.id, deleteUserLocal(del.id, vaultRequest(Timeout)))
    /\ UNCHANGED <<vaultVars, bgVars, delBudget, vcVars, pageVars, idVars, valVars>>

\* the Vault Service cannot be reached
DeleteUserNetworkFailure ==
    /\ del.pc = "await" /\ del.slot = ""
    /\ DeleteUserReturns(del.id,
          deleteUserLocal(del.id, vaultRequest(NetworkFailure)))
    /\ UNCHANGED <<vaultVars, bgVars, delBudget, vcVars, pageVars, idVars, valVars>>

DelNext ==
    \/ \E id \in DeleteIds : DeleteUserStart(id)
    \/ \E p \in Procs : DeleteVaultArrives(p)
    \/ \E p \in Procs : DeleteVaultFails(p)
    \/ \E p \in Procs, a \in AppIds : SeedWriteArrives(p, a)
    \/ \E p \in Procs : WriteAudit(p) /\ VaultOnly
    \/ \E p \in Procs : DeleteVaultAudit(p) /\ VaultOnly
    \/ \E p \in Procs : AuditQueryError(p) /\ VaultOnly
    \/ DeleteUserResumes
    \/ DeleteUserTimeout
    \/ DeleteUserNetworkFailure

\* the admin is logged in; the testuser holds a plugin token and stored
\* credentials
PidHeldTokenInit ==
    /\ session = "admin"
    /\ plugin_tokens = {[token |-> 1, user_id |-> "testuser",
                         expires_at |-> expiresInSeconds]}
    /\ user_apps = Users \X AppIds
    /\ pid_credentials = [k \in PidKeys |-> IF k[1] = "testuser" THEN <<SeedRow>>
                                            ELSE <<>>]
    /\ now = 0
    /\ issuedTo = [t \in Tokens |-> IF t = 1 THEN "testuser" ELSE NoUser]
    /\ owned = [k \in PidKeys |->
                   IF k[1] = "testuser"
                     THEN <<[username |-> "testuser", password |-> "TestPass123!"]>>
                     ELSE <<>>]
    /\ pcall = NoCall
    /\ pidBudget = MaxCalls

\* POST /api/plugin/bootstrap from another browser, whose session cookie of
\* user u is older than any deleteUser: requireAuth looks at the session only
SessionBootstrap(u) ==
    /\ \E t \in Tokens : issuedTo[t] = NoUser
    /\ plugin_tokens' = generatePluginToken(u)
    /\ issuedTo' = [issuedTo EXCEPT ![FreshToken] = u]
    /\ pcall' = NoCall
    /\ UNCHANGED <<session, user_apps, pid_credentials, now, owned, pidBudget>>

\* the body the extension posts for app_a
LearnedBody == [appId |-> "app_a", fields |-> <<LearnedFields>>,
                username |-> "", password |-> ""]

\* deleteUser, bootstraps and the extension's delegated calls for app_a; the
\* Vault Service serves the delete-vault request in slot r1
DelCallsNext ==
    \/ \E id \in DeleteIds : DeleteUserStart(id)
    \/ DeleteVaultArrives("r1")
    \/ DeleteVaultFails("r1")
    \/ DeleteVaultAudit("r1") /\ VaultOnly
    \/ DeleteUserResumes
    \/ DeleteUserTimeout
    \/ \E u \in Users : SessionBootstrap(u)
         /\ PidOnly
    \/ \E t \in Tokens : CallGet(t, "app_a")
         /\ PidOnly
    \/ \E t \in Tokens : CallPost(t, LearnedBody)
         /\ PidOnly
    \/ \E t \in Tokens : CallPut(t, "app_a", ChangedPassword)
         /\ PidOnly

(***************************************************************************)
(* Properties of deleteUser.                                               *)
(***************************************************************************)
\* C36: once deleteUser has removed an identity, introspection reports every
\* plugin token issued to it inactive, whether the token was issued before the
\* deletion or by a session that outlived it and whatever its expires_at, and
\* every delegated call that presents such a token is answered 401 and
\* changes no credential.
C36_DeletedIdentityTokensRejected ==
    [][ /\ \A t \in Tokens :
              (issuedTo'[t] # NoUser /\ issuedTo'[t] \notin users') =>
                  ~requireBearerToken(t)'.active
        /\ (pidBudget' # pidBudget /\ pcall'.op # "none"
               /\ pcall'.owner # NoUser /\ pcall'.owner \notin users) =>
              /\ pcall'.status = 401
              /\ pid_credentials' = pid_credentials
      ]_vars

\* a call with a token issued to the deleted testuser that is in the table
\* and not expired
C36_Witness ==
    /\ "testuser" \notin users
    /\ pcall.op = "get"
    /\ pcall.owner = "testuser"
    /\ pcall.tokenState = "valid"
    /\ pcall.status = 401
    /\ pcall.body = [error |-> "User not found"]

\* the three local tables as deleteUser sees them
LocalTables == <<users, user_apps, plugin_tokens>>

MaxClientCalls == 2

\* the payloads the five functions post
ClientRequests ==
    PlainRequests
    \cup [op : {"update-password"}, vaultId : VaultIds, appId : AppIds,
          newPassword : NewPasswords]

NoClientCall == [pc |-> "idle", req |-> Idle, sent |-> 0,
                 outcome |-> [kind |-> "none"], result |-> [none |-> TRUE]]

VcInit ==
    /\ vc = NoClientCall
    /\ vcBudget = MaxClientCalls

\* the connection the client's request travels on
ClientSlot == "r1"

\* read() hands on result.data.fields, the other functions the result itself
ClientResult(op, result) ==
    IF op = "read" /\ result.success
      THEN [success |-> TRUE, status |-> result.status,
            fields |-> result.data.fields]
      ELSE result

\* one of the five functions is called: fetch sends the request
ClientCall(r) ==
    /\ vc.pc \in {"idle", "returned"}
    /\ vcBudget > 0
    /\ vcBudget' = vcBudget - 1
    /\ vc' = [NoClientCall EXCEPT !.pc = "await", !.req = r, !.sent = 1]
    /\ vpc' = [vpc EXCEPT ![ClientSlot] = "idle"]
    /\ vres' = [vres EXCEPT ![ClientSlot] = NoResp]
    /\ UNCHANGED <<vault_credentials, audit_log, rowLock, vreq, vloc, vgh, hist,
                   okLog, dbNow, updated_at, txStart, budget>>
    /\ UNCHANGED <<pidVars, bgVars, delVars, pageVars, idVars, valVars>>

\* the Vault Service handles the request of the client
VaultServes ==
    /\ vc.pc = "await"
    /\ vpc[ClientSlot] \notin {"done", "hung"}
    /\ VaultStep(ClientSlot)
    /\ vreq'[ClientSlot] = vc.req

\* vaultRequest returns to the calling function, which returns
ClientReturns(o) ==
    /\ vc' = [vc EXCEPT !.pc = "returned", !.outcome = o,
                        !.result = ClientResult(vc.req.op, vaultRequest(o))]
    /\ UNCHANGED <<vaultVars, pidVars, bgVars, delVars, vcBudget, pageVars, idVars, valVars>>

\* the response of the Vault Service arrives
ClientResponse ==
    /\ vc.pc = "await" /\ vpc[ClientSlot] = "done"
    /\ ClientReturns(VaultResponse(vres[ClientSlot]))

\* the timer aborts the fetch: the handler is still running, or it ended
\* without answering
ClientTimeout ==
    /\ vc.pc = "await" /\ vpc[ClientSlot] # "done"
    /\ ClientReturns(Timeout)

\* the request never reached the Vault Service
ClientNetworkFailure ==
    /\ vc.pc = "await" /\ vpc[ClientSlot] = "idle"
    /\ ClientReturns(NetworkFailure)

VcNext ==
    \/ \E r \in ClientRequests : ClientCall(r)
    \/ VaultServes
    \/ ClientResponse
    \/ ClientTimeout
    \/ ClientNetworkFailure

(***************************************************************************)
(* Properties of the vault client.                                         *)
(***************************************************************************)
\* C18: a call that returned sent one request and returned an object (it did
\* not throw): for a 2xx answer success with the status and the data the
\* Vault Service sent (read hands on the fields), for a 404 a failure with
\* status 404, for a 5xx the failure with status 502 'Vault internal error',
\* for a timeout or network failure a failure with status 503.
C18_TranslatesVaultOutcomes ==
    vc.pc = "returned" =>
       /\ vc.sent = 1
       /\ "success" \in DOMAIN vc.result /\ "status" \in DOMAIN vc.result
       /\ vc.outcome.kind \in {"timeout", "network"} =>
             ~vc.result.success /\ vc.result.status = 503
       /\ vc.outcome.kind = "response" =>
             LET res == vres[ClientSlot] IN
             /\ ResponseOk(res.status) =>
                   /\ vc.result.success /\ vc.result.status = res.status
                   /\ IF vc.req.op = "read"
                        THEN vc.result.fields = res.body.fields
                        ELSE vc.result.data = res.body
             /\ res.status = 404 =>
                   /\ ~vc.result.success /\ vc.result.status = 404
                   /\ vc.result.error = res.body.error
             /\ res.status >= 500 =>
                   /\ ~vc.result.success /\ vc.result.status = 502
                   /\ vc.result.error = "Vault internal error"

\* a read returned the fields a write of the same run stored
C18_Witness ==
    /\ vc.pc = "returned" /\ vc.req.op = "read"
    /\ vc.outcome.kind = "response" /\ vc.result.success
    /\ vc.result.fields \in FieldMaps
    /\ okLog # <<>> /\ Len(audit_log) = 1

(***************************************************************************)
(* The content script of the extension (sso-extension/content.js), run in  *)
(* one tab on the pages of two origins.                                    *)
(***************************************************************************)
MaxLoads == 3

\* the origins of app_a and app_b
PageOrigins == {"http://localhost:3001", "http://localhost:3002"}
currentOrigin == page.origin
STORAGE_KEY == "sso_learning_credentials"
SCHEMA_KEY == "sso_login_schema"
PWD_CHANGE_KEY == "sso_password_change"

\* sessionStorage: the keys present and the item under each
NoItem == [none |-> TRUE]
EmptyStorage == [k \in {} |-> NoItem]
getItem(st, k) == IF k \in DOMAIN st THEN st[k] ELSE NoItem
setItem(st, k, item) == [x \in DOMAIN st \cup {k} |-> IF x = k THEN item ELSE st[x]]
removeItem(st, k) == [x \in DOMAIN st \ {k} |-> st[x]]

\* the loginSchema of an app: the names of the fields of its login form
NoSchema == [none |-> TRUE]
\* (defaultSchema and roleSchema of the seeded apps)
LoginSchemas == { [names |-> {"username", "password"}],
                  [names |-> {"username", "password", "role"}] }
\* what a user types into the login form ("" is a field left empty)
TypedLogins ==
    { [username |-> "u", password |-> p, role |-> r] :
        p \in {"", "p1", "p2"}, r \in {"", "admin"} }
NoTyped == [username |-> "", password |-> "", role |-> ""]
TypedPasswords == {"", "n1"}
\* the credentials Primary Identity returns for the app
StoredFields == { [username |-> "u", password |-> "p1"],
                  [username |-> "", password |-> ""] }

saveLearningCredentials(st, fields) ==
    setItem(st, STORAGE_KEY, [fields |-> fields, origin |-> currentOrigin])

getLearningCredentials(st) ==
    LET parsed == getItem(st, STORAGE_KEY)
    IN  IF parsed = NoItem THEN NoItem
        ELSE IF parsed.origin = currentOrigin THEN parsed ELSE NoItem

clearLearningCredentials(st) == removeItem(st, STORAGE_KEY)

saveLoginSchema(st, schema) ==
    IF schema # NoSchema
    THEN setItem(st, SCHEMA_KEY, [schema |-> schema, origin |-> currentOrigin])
    ELSE st

getLoginSchema(st) ==
    LET parsed == getItem(st, SCHEMA_KEY)
    IN  IF parsed = NoItem THEN NoSchema
        ELSE IF parsed.origin = currentOrigin THEN parsed.schema ELSE NoSchema

clearLoginSchema(st) == removeItem(st, SCHEMA_KEY)

savePasswordChangeData(st, newPassword) ==
    setItem(st, PWD_CHANGE_KEY, [newPassword |-> newPassword, origin |-> currentOrigin])

getPasswordChangeData(st) ==
    LET parsed == getItem(st, PWD_CHANGE_KEY)
    IN  IF parsed = NoItem THEN NoItem
        ELSE IF parsed.origin = currentOrigin THEN parsed ELSE NoItem

clearPasswordChangeData(st) == removeItem(st, PWD_CHANGE_KEY)

\* the document shows input[name="username"] and input[name="password"]
findLoginForm == page.login
\* the document shows input[name="current_password"] and input[name="new_password"]
findPasswordChangeForm == page.change

\* the fields of the typed form that have a value, by name
captureFormFields_UsernamePassword(loginSchema, typed) ==
    [n \in {"username", "password"} |-> typed[n]]
captureFormFields(loginSchema, typed) ==
    IF loginSchema # NoSchema
    THEN [n \in { x \in loginSchema.names : typed[x] # "" } |-> typed[n]]
    ELSE [n \in {"username", "password"} |-> typed[n]]

\* capturedFields && capturedFields.username && capturedFields.password
HasLogin(fields) ==
    /\ {"username", "password"} \subseteq DOMAIN fields
    /\ fields["username"] # ""
    /\ fields["password"] # ""

fillLoginFormWithSchema(loginSchema, fields) ==
    { n \in loginSchema.names : n \in DOMAIN fields /\ fields[n] # "" /\ findLoginForm } # {}

fillLoginForm(credentials) == findLoginForm

\* messages of the content script to the background script
NoPageMsg == [action |-> "none"]
GetCredentialsMsg == [action |-> "getCredentials", origin |-> currentOrigin]
SaveCredentialsMsg_FirstOrigin(fields) ==
    [action |-> "saveCredentials", origin |-> "http://localhost:3001", fields |-> fields]
SaveCredentialsMsg(fields) ==
    [action |-> "saveCredentials", origin |-> currentOrigin, fields |-> fields]
UpdatePasswordMsg(newPassword) ==
    [action |-> "updatePassword", origin |-> currentOrigin, newPassword |-> newPassword]

\* what the callback of getCredentials can be called with
NoResponse == [kind |-> "none"]
Responses ==
    { [kind |-> "lastError"], NoResponse }
    \cup { [kind |-> "reply", success |-> FALSE, needsLearning |-> n, loginSchema |-> s] :
             n \in BOOLEAN, s \in LoginSchemas \cup {NoSchema} }
    \cup { [kind |-> "reply", success |-> TRUE, loginSchema |-> s,
            credentials |-> [fields |-> f]] :
             s \in LoginSchemas \cup {NoSchema}, f \in StoredFields }

NoDecision == "unasked"
\* Utils.askConsent: window.confirm returns true (OK) or false (Cancel)
askConsent(ok) == IF ok THEN "accepted" ELSE "declined"
PromptAnswers == {"1", "2", "3", "cancelled"}

NoForwards == [k \in {STORAGE_KEY, PWD_CHANGE_KEY} |-> 0]
Forwarded(k) == [forwards EXCEPT ![k] = IF @ < 2 THEN @ + 1 ELSE @]

\* the storage area of an origin nothing was stored in
EmptyArea == [storage |-> EmptyStorage, forwards |-> NoForwards,
              failedCapture |-> FALSE, pwdChecks |-> 0]

PageInit ==
    /\ sessionStorage = EmptyStorage
    /\ areas = [o \in PageOrigins |-> EmptyArea]
    /\ page = [origin |-> "http://localhost:3001", login |-> FALSE, change |-> FALSE]
    /\ ppc = "idle"
    /\ listener = "none"
    /\ loginForm = NoTyped
    /\ currentLoginSchema = NoSchema
    /\ response = NoResponse
    /\ pout = NoPageMsg
    /\ decision = NoDecision
    /\ forwards = NoForwards
    /\ failedCapture = FALSE
    /\ prevReplay = FALSE
    /\ pwdChecks = 0
    /\ loads = MaxLoads

\* a document is loaded in the tab and the content script starts from the
\* top: after a form submission, a navigation, a reload or a crash of the tab,
\* which can happen wherever the script of the previous document is; the
\* document sees the storage area of its own origin
Load(origin, login, change) ==
    /\ loads > 0
    /\ loads' = loads - 1
    /\ page' = [origin |-> origin, login |-> login, change |-> change]
    /\ LET here == [storage |-> sessionStorage, forwards |-> forwards,
                    failedCapture |-> failedCapture, pwdChecks |-> pwdChecks]
           there == IF origin = page.origin THEN here ELSE areas[origin]
       IN  /\ sessionStorage' = there.storage
           /\ forwards' = there.forwards
           /\ failedCapture' = there.failedCapture
           /\ pwdChecks' = there.pwdChecks
           /\ areas' = IF origin = page.origin THEN areas
                       ELSE [areas EXCEPT ![page.origin] = here, ![origin] = EmptyArea]
    /\ ppc' = "main"
    /\ listener' = "none"
    /\ currentLoginSchema' = NoSchema
    /\ response' = NoResponse
    /\ pout' = NoPageMsg
    /\ decision' = NoDecision
    /\ prevReplay' = (ppc = "submitted" /\ origin = page.origin)
    /\ loginForm' = NoTyped
    /\ PageOnly

\* main, first statement: checkPasswordChangeSuccess up to its confirm dialog
CheckPasswordChange ==
    /\ ppc = "main"
    /\ LET data == getPasswordChangeData(sessionStorage)
       IN  IF data = NoItem
           THEN /\ ppc' = "forms"
                /\ UNCHANGED sessionStorage
           ELSE IF findPasswordChangeForm
           THEN /\ sessionStorage' = clearPasswordChangeData(sessionStorage)
                /\ ppc' = "forms"
           ELSE /\ ppc' = "pw_confirm"
                /\ UNCHANGED sessionStorage
    /\ pout' = NoPageMsg
    /\ UNCHANGED <<page, listener, currentLoginSchema, response, decision, forwards,
                   failedCapture, prevReplay, loads>>
    /\ pwdChecks' = IF getPasswordChangeData(sessionStorage) = NoItem THEN pwdChecks
                    ELSE IF pwdChecks < 2 THEN pwdChecks + 1 ELSE pwdChecks
    /\ UNCHANGED areas
    /\ UNCHANGED loginForm
    /\ PageOnly

\* checkPasswordChangeSuccess: the user answers the confirm dialog and, on OK,
\* updatePassword is sent
PasswordConsent(ok) ==
    /\ ppc = "pw_confirm"
    /\ IF ok
       THEN /\ pout' = UpdatePasswordMsg(getPasswordChangeData(sessionStorage).newPassword)
            /\ forwards' = Forwarded(PWD_CHANGE_KEY)
       ELSE /\ pout' = NoPageMsg
            /\ UNCHANGED forwards
    /\ decision' = askConsent(ok)
    /\ ppc' = "pw_clear"
    /\ UNCHANGED <<sessionStorage, page, listener, currentLoginSchema, response,
                   failedCapture, prevReplay, loads>>
    /\ UNCHANGED pwdChecks
    /\ UNCHANGED areas
    /\ UNCHANGED loginForm
    /\ PageOnly

\* checkPasswordChangeSuccess, last statement: clearPasswordChangeData
PasswordClear ==
    /\ ppc = "pw_clear"
    /\ sessionStorage' = clearPasswordChangeData(sessionStorage)
    /\ ppc' = "forms"
    /\ pout' = NoPageMsg
    /\ UNCHANGED <<page, listener, currentLoginSchema, response, decision, forwards,
                   failedCapture, prevReplay, loads>>
    /\ UNCHANGED pwdChecks
    /\ UNCHANGED areas
    /\ UNCHANGED loginForm
    /\ PageOnly

\* handlePasswordChange: the submit listener of the password change form
handlePasswordChange == IF findPasswordChangeForm THEN "change" ELSE "none"

\* main after checkPasswordChangeSuccess: the password change form, no login
\* form, or the login form and the request for the credentials
MainForms ==
    /\ ppc = "forms"
    /\ IF findPasswordChangeForm
       THEN /\ listener' = handlePasswordChange
            /\ ppc' = "done"
            /\ pout' = NoPageMsg
            /\ UNCHANGED failedCapture
       ELSE IF ~findLoginForm
       THEN /\ ppc' = "learncheck"
            /\ pout' = NoPageMsg
            /\ UNCHANGED <<listener, failedCapture>>
       ELSE /\ pout' = GetCredentialsMsg
            /\ ppc' = "wait_resp"
            /\ failedCapture' =
                  (failedCapture \/ getLearningCredentials(sessionStorage) # NoItem)
            /\ UNCHANGED listener
    /\ UNCHANGED <<sessionStorage, page, currentLoginSchema, response, decision,
                   forwards, prevReplay, loads>>
    /\ UNCHANGED pwdChecks
    /\ UNCHANGED areas
    /\ UNCHANGED loginForm
    /\ PageOnly

\* checkLearningSuccess up to its confirm dialog
CheckLearning ==
    /\ ppc = "learncheck"
    /\ LET capturedData == getLearningCredentials(sessionStorage)
       IN  IF capturedData = NoItem
           THEN /\ ppc' = "done"
                /\ UNCHANGED <<sessionStorage, failedCapture>>
           ELSE IF findLoginForm
           THEN /\ sessionStorage' =
                      clearLoginSchema(clearLearningCredentials(sessionStorage))
                /\ failedCapture' = FALSE
                /\ ppc' = "done"
           ELSE /\ ppc' = "learn_confirm"
                /\ UNCHANGED <<sessionStorage, failedCapture>>
    /\ pout' = NoPageMsg
    /\ UNCHANGED <<page, listener, currentLoginSchema, response, decision, forwards,
                   prevReplay, loads>>
    /\ UNCHANGED pwdChecks
    /\ UNCHANGED areas
    /\ UNCHANGED loginForm
    /\ PageOnly

\* mutant: saveCredentials is sent whatever the user answers
LearningConsent_SendAnyway(ok) ==
    /\ ppc = "learn_confirm"
    /\ pout' = SaveCredentialsMsg(getLearningCredentials(sessionStorage).fields)
    /\ forwards' = Forwarded(STORAGE_KEY)
    /\ decision' = askConsent(ok)
    /\ ppc' = "learn_clear"
    /\ UNCHANGED <<sessionStorage, page, listener, currentLoginSchema, response,
                   failedCapture, prevReplay, loads>>
    /\ UNCHANGED pwdChecks
    /\ UNCHANGED areas
    /\ UNCHANGED loginForm
    /\ PageOnly

\* checkLearningSuccess: the user answers the confirm dialog and, on OK,
\* saveCredentials is sent
LearningConsent(ok) ==
    /\ ppc = "learn_confirm"
    /\ IF ok
       THEN /\ pout' = SaveCredentialsMsg(getLearningCredentials(sessionStorage).fields)
            /\ forwards' = Forwarded(STORAGE_KEY)
       ELSE /\ pout' = NoPageMsg
            /\ UNCHANGED forwards
    /\ decision' = askConsent(ok)
    /\ ppc' = "learn_clear"
    /\ UNCHANGED <<sessionStorage, page, listener, currentLoginSchema, response,
                   failedCapture, prevReplay, loads>>
    /\ UNCHANGED pwdChecks
    /\ UNCHANGED areas
    /\ UNCHANGED loginForm
    /\ PageOnly

\* checkLearningSuccess, last statements: clearLearningCredentials and
\* clearLoginSchema
LearningClear ==
    /\ ppc = "learn_clear"
    /\ sessionStorage' = clearLoginSchema(clearLearningCredentials(sessionStorage))
    /\ failedCapture' = FALSE
    /\ ppc' = "done"
    /\ pout' = NoPageMsg
    /\ UNCHANGED <<page, listener, currentLoginSchema, response, decision, forwards,
                   prevReplay, loads>>
    /\ UNCHANGED pwdChecks
    /\ UNCHANGED areas
    /\ UNCHANGED loginForm
    /\ PageOnly

\* enterLearningMode: the schema kept and stored, the submit listener attached
enterLearningMode(loginSchema) ==
    /\ currentLoginSchema' =
          IF loginSchema # NoSchema THEN loginSchema ELSE getLoginSchema(sessionStorage)
    /\ sessionStorage' = saveLoginSchema(sessionStorage, loginSchema)
    /\ listener' = IF findLoginForm THEN "learn" ELSE "none"

\* where the callback goes once credentials were returned
CredentialsFound_Silent == "sleep1"
CredentialsFound == "prompt"

\* mutant: every failure reply starts learning
needsLearning_Always(r) == TRUE

\* response.needsLearning of a failure reply
needsLearning(r) == r.needsLearning

\* the callback of getCredentials runs up to its prompt; response is its
\* argument
Response(r) ==
    /\ ppc = "wait_resp"
    /\ pout' = NoPageMsg
    /\ response' = r
    /\ IF r.kind # "reply"
       THEN /\ ppc' = "done"
            /\ UNCHANGED <<sessionStorage, listener, currentLoginSchema>>
       ELSE IF ~r.success
       THEN /\ ppc' = "done"
            /\ IF needsLearning(r)
               THEN enterLearningMode(r.loginSchema)
               ELSE UNCHANGED <<sessionStorage, listener, currentLoginSchema>>
       ELSE /\ ppc' = CredentialsFound
            /\ UNCHANGED <<sessionStorage, listener, currentLoginSchema>>
    /\ UNCHANGED <<page, decision, forwards, failedCapture, prevReplay, loads>>
    /\ UNCHANGED pwdChecks
    /\ UNCHANGED areas
    /\ UNCHANGED loginForm
    /\ PageOnly

\* the user answers the prompt: 2 types manually, 3 updates the credentials,
\* anything else logs in automatically
Prompt(action) ==
    /\ ppc = "prompt"
    /\ decision' = action
    /\ pout' = NoPageMsg
    /\ IF action = "2"
       THEN /\ ppc' = "done"
            /\ UNCHANGED <<sessionStorage, listener, currentLoginSchema>>
       ELSE IF action = "3"
       THEN /\ ppc' = "done"
            /\ enterLearningMode(response.loginSchema)
       ELSE /\ ppc' = "sleep1"
            /\ UNCHANGED <<sessionStorage, listener, currentLoginSchema>>
    /\ UNCHANGED <<page, response, forwards, failedCapture, prevReplay, loads>>
    /\ UNCHANGED pwdChecks
    /\ UNCHANGED areas
    /\ UNCHANGED loginForm
    /\ PageOnly

\* after the first sleep the form is filled
Fill ==
    /\ ppc = "sleep1"
    /\ LET filled ==
             IF response.loginSchema # NoSchema
             THEN fillLoginFormWithSchema(response.loginSchema, response.credentials.fields)
             ELSE fillLoginForm(response.credentials)
       IN  ppc' = IF filled THEN "sleep2" ELSE "done"
    /\ pout' = NoPageMsg
    /\ UNCHANGED <<sessionStorage, page, listener, currentLoginSchema, response,
                   decision, forwards, failedCapture, prevReplay, loads>>
    /\ UNCHANGED pwdChecks
    /\ UNCHANGED areas
    /\ UNCHANGED loginForm
    /\ PageOnly

\* after the second sleep submitLoginForm clicks the button or submits the form
submitLoginForm ==
    /\ ppc = "sleep2"
    /\ ppc' = IF findLoginForm THEN "submitted" ELSE "done"
    /\ pout' = NoPageMsg
    /\ UNCHANGED <<sessionStorage, page, listener, currentLoginSchema, response,
                   decision, forwards, failedCapture, prevReplay, loads>>
    /\ UNCHANGED pwdChecks
    /\ UNCHANGED areas
    /\ UNCHANGED loginForm
    /\ PageOnly

\* the user submits the login form the learning listener watches
UserSubmitsLogin(typed) ==
    /\ listener = "learn"
    /\ ppc = "done"
    /\ LET capturedFields == captureFormFields(currentLoginSchema, typed)
       IN  IF HasLogin(capturedFields)
           THEN /\ sessionStorage' = saveLearningCredentials(sessionStorage, capturedFields)
                /\ forwards' = [forwards EXCEPT ![STORAGE_KEY] = 0]
                /\ failedCapture' = FALSE
           ELSE UNCHANGED <<sessionStorage, forwards, failedCapture>>
    /\ ppc' = "userSubmitted"
    /\ pout' = NoPageMsg
    /\ UNCHANGED <<page, listener, currentLoginSchema, response, decision, prevReplay,
                   loads>>
    /\ UNCHANGED pwdChecks
    /\ UNCHANGED areas
    /\ loginForm' = typed
    /\ PageOnly

\* the user submits the password change form the listener watches
UserSubmitsPasswordChange(newPwd) ==
    /\ listener = "change"
    /\ ppc = "done"
    /\ IF newPwd # ""
       THEN /\ sessionStorage' = savePasswordChangeData(sessionStorage, newPwd)
            /\ forwards' = [forwards EXCEPT ![PWD_CHANGE_KEY] = 0]
       ELSE UNCHANGED <<sessionStorage, forwards>>
    /\ ppc' = "userSubmitted"
    /\ pout' = NoPageMsg
    /\ UNCHANGED <<page, listener, currentLoginSchema, response, decision,
                   failedCapture, prevReplay, loads>>
    /\ pwdChecks' = IF newPwd # "" THEN 0 ELSE pwdChecks
    /\ UNCHANGED areas
    /\ UNCHANGED loginForm
    /\ PageOnly

PageNext ==
    \/ \E origin \in PageOrigins, login \in BOOLEAN, change \in BOOLEAN :
          Load(origin, login, change)
    \/ CheckPasswordChange
    \/ \E ok \in BOOLEAN : PasswordConsent(ok)
    \/ PasswordClear
    \/ MainForms
    \/ CheckLearning
    \/ \E ok \in BOOLEAN : LearningConsent(ok)
    \/ LearningClear
    \/ \E r \in Responses : Response(r)
    \/ \E action \in PromptAnswers : Prompt(action)
    \/ Fill
    \/ submitLoginForm
    \/ \E typed \in TypedLogins : UserSubmitsLogin(typed)
    \/ \E newPwd \in TypedPasswords : UserSubmitsPasswordChange(newPwd)

(***************************************************************************)
(* Properties of the content script.                                       *)
(***************************************************************************)
\* the content script submits the login form in this step
SubmitsLogin == ppc # "submitted" /\ ppc' = "submitted"
\* a step of the content script in the document it was loaded in
SameDocument == ppc' # "main"

\* C15: in a page load that shows the login form and follows a page load in
\* which the content script submitted the login form (the replay failed), the
\* content script fills and submits the form only after it asked the user what
\* to do in this page load; no replay is submitted without a user decision.
C15_NoReplayWithoutDecision ==
    (prevReplay /\ page.login /\ ppc \in {"sleep1", "sleep2", "submitted"})
        => decision \in PromptAnswers \ {"2", "3"}

\* C15 witness: the login form is shown again after a submitted replay and the
\* content script asks the user what to do
C15_Witness ==
    /\ prevReplay
    /\ page.login
    /\ ppc = "prompt"
    /\ decision = NoDecision
    /\ response.success

\* C16: when the content script submits the login form, sessionStorage already
\* holds an attempt flag of the origin: an item other than the login capture,
\* the login schema and the password change capture.
C16_FlagBeforeSubmit ==
    [][ SubmitsLogin =>
          \E k \in DOMAIN sessionStorage :
              k \notin {STORAGE_KEY, SCHEMA_KEY, PWD_CHANGE_KEY} ]_vars

\* C19: with a login capture stored, main on a page without login form goes on
\* to the consent dialog, saveCredentials carries exactly the captured fields
\* and the capture is removed afterwards; main on a page that shows the login
\* form removes the capture and sends no saveCredentials, and a capture that was
\* followed by a page showing the login form is never sent.
C19_LearningOutcome ==
    [][ LET capturedData == getLearningCredentials(sessionStorage)
        IN  /\ (ppc = "forms" /\ SameDocument /\ capturedData # NoItem /\ ~page.login)
                  => ppc' = "learncheck"
            /\ (ppc = "learncheck" /\ SameDocument /\ capturedData # NoItem /\ ~page.login)
                  => ppc' = "learn_confirm"
            /\ pout'.action = "saveCredentials"
                  => /\ pout'.fields = capturedData.fields
                     /\ ~failedCapture
            /\ (ppc = "learn_clear" /\ SameDocument)
                  => getLearningCredentials(sessionStorage') = NoItem
            /\ (ppc = "forms" /\ SameDocument /\ capturedData # NoItem /\ page.login)
                  => /\ getLearningCredentials(sessionStorage') = NoItem
                     /\ pout'.action # "saveCredentials" ]_vars

\* C20: when saveCredentials or updatePassword is sent the capture it carries
\* is no longer in sessionStorage, and no stored capture is sent twice.
C20_ClearsBeforeSending ==
    [][ /\ pout'.action = "saveCredentials"
              => getItem(sessionStorage', STORAGE_KEY) = NoItem
        /\ pout'.action = "updatePassword"
              => getItem(sessionStorage', PWD_CHANGE_KEY) = NoItem
        /\ \A k \in DOMAIN forwards : forwards'[k] <= 1 ]_vars

\* the user submits the login form in learning mode in this step
SubmitsInLearning == ppc = "done" /\ ppc' = "userSubmitted" /\ listener = "learn"
\* items of sessionStorage other than the three captures of content.js
OtherMarkers(st) == DOMAIN st \ {STORAGE_KEY, SCHEMA_KEY, PWD_CHANGE_KEY}

\* C21: with a password change capture stored, a page without the change form
\* leads to the confirm dialog, updatePassword carries the captured password
\* and the capture is removed afterwards; a page that still shows the change
\* form leaves the capture at the first such page load and removes it at the
\* next one.
C21_PasswordChangeOutcome ==
    [][ LET data == getPasswordChangeData(sessionStorage)
        IN  /\ (ppc = "main" /\ SameDocument /\ data # NoItem /\ ~page.change)
                  => ppc' = "pw_confirm"
            /\ pout'.action = "updatePassword"
                  => pout'.newPassword = data.newPassword
            /\ (ppc = "pw_clear" /\ SameDocument)
                  => getPasswordChangeData(sessionStorage') = NoItem
            /\ (ppc = "main" /\ SameDocument /\ data # NoItem /\ page.change)
                  => IF pwdChecks = 0
                     THEN getPasswordChangeData(sessionStorage') = data
                     ELSE getPasswordChangeData(sessionStorage') = NoItem ]_vars

\* C22: when the content script submits the login form the storage of the tab
\* holds a marker that the application passed the presence check (an item
\* besides the three captures): it was there before, or the check of this page
\* load added it.
C22_ReplayOnlyVerified ==
    [][ SubmitsLogin => OtherMarkers(sessionStorage') # {} ]_vars

C24_OriginScoped ==
    /\ \A k \in DOMAIN sessionStorage : sessionStorage[k].origin = page.origin
    /\ \A o \in PageOrigins : \A k \in DOMAIN areas[o].storage :
           areas[o].storage[k].origin = o
    /\ pout.action = "saveCredentials" =>
           /\ pout.origin = page.origin
           /\ getItem(sessionStorage, STORAGE_KEY) =
                 [fields |-> pout.fields, origin |-> page.origin]
    /\ pout.action = "updatePassword" =>
           /\ pout.origin = page.origin
           /\ getItem(sessionStorage, PWD_CHANGE_KEY) =
                 [newPassword |-> pout.newPassword, origin |-> page.origin]

\* C24 witness: the capture of the second origin is sent from a page of the
\* second origin while a capture of the first origin waits in its own area
C24_Witness ==
    /\ pout.action = "saveCredentials"
    /\ page.origin = "http://localhost:3002"
    /\ STORAGE_KEY \in DOMAIN areas["http://localhost:3001"].storage

\* the callback of getCredentials got no reply (or was not called), or a
\* failure without needsLearning
QuietReply ==
    \/ response.kind \in {"none", "lastError"}
    \/ response.kind = "reply" /\ ~response.success /\ ~response.needsLearning

\* C38: on a page load whose getCredentials reply is missing or is a failure
\* without needsLearning, the content script does not prompt, fill or submit
\* the login form, attaches no learning listener, and writes neither a
\* captured login nor a login schema into sessionStorage.
C38_QuietReplyDoesNothing ==
    [][ QuietReply' =>
          /\ ppc' \notin {"prompt", "sleep1", "sleep2", "submitted"}
          /\ listener' # "learn"
          /\ loads' = loads =>
                \A k \in {STORAGE_KEY, SCHEMA_KEY} :
                    getItem(sessionStorage', k) \in {getItem(sessionStorage, k), NoItem}
      ]_vars

C38_Witness ==
    /\ response.kind = "reply"
    /\ ~response.success
    /\ ~response.needsLearning
    /\ response.loginSchema # NoSchema
    /\ page.login
    /\ ppc = "done"
    /\ listener = "none"
    /\ getLoginSchema(sessionStorage) = NoSchema

NULL == "NULL"

\* usernames of the seed and of the users an admin creates
SeedUsernames == {"admin", "testuser"}
NewUsernames == {"alice", "bob"}
Roles == {"admin", "user"}

\* `vault_${userId}`
vaultIdFor(userId) == "vault_" \o ToString(userId)

MaxOf(S) == IF S = {} THEN 0 ELSE CHOOSE n \in S : \A m \in S : m <= n

\* id INTEGER PRIMARY KEY (mutant: without AUTOINCREMENT the rowid is one more
\* than the largest rowid in the table)
AutoIncrement_MaxRowid(d) == MaxOf({ r.id : r \in d.users }) + 1

\* id INTEGER PRIMARY KEY AUTOINCREMENT: one more than the largest rowid the
\* table ever held, which sqlite_sequence keeps
AutoIncrement(d) == MaxOf({ r.id : r \in d.users } \cup {d.seq}) + 1

\* INSERT INTO users (username, password_hash, role): vault_id is NULL
InsertUser(d, username, userRole, g) ==
    LET id == AutoIncrement(d)
    IN  [d EXCEPT !.users = @ \cup {[id |-> id, username |-> username,
                                     role |-> userRole, vault_id |-> NULL, g |-> g]},
                  !.seq = id]

\* UPDATE users SET vault_id = ? WHERE id = ?
SetVaultId(d, id, vaultId) ==
    [d EXCEPT !.users = { IF r.id = id THEN [r EXCEPT !.vault_id = vaultId] ELSE r
                          : r \in @ }]

\* the migration and the guard of initDatabase: every row whose vault_id is
\* NULL gets vault_<id>
assignMissingVaultIds(d) ==
    [d EXCEPT !.users = { IF r.vault_id = NULL
                            THEN [r EXCEPT !.vault_id = vaultIdFor(r.id)]
                            ELSE r : r \in @ }]

HasUser(d, username) == \E r \in d.users : r.username = username

\* INSERT OR IGNORE of one seed user, then its vault_id
SeedUser(d, username, userRole, g) ==
    IF HasUser(d, username) THEN d
    ELSE LET e == InsertUser(d, username, userRole, g)
             id == (CHOOSE r \in e.users : r.username = username).id
         IN  SetVaultId(e, id, vaultIdFor(id))

\* seedDatabase: nothing when admin exists, else admin and testuser
seedDatabase(d, g) ==
    IF HasUser(d, "admin") THEN d
    ELSE SeedUser(SeedUser(d, "admin", "admin", g + 1), "testuser", "user", g + 2)

\* SELECT vault_id FROM users WHERE id = ?
getVaultIdOf(d, userId) ==
    IF \E r \in d.users : r.id = userId
      THEN (CHOOSE r \in d.users : r.id = userId).vault_id
      ELSE NULL

NoDb == [up |-> FALSE, users |-> {}, seq |-> 0]
NoFile == [exists |-> FALSE, users |-> {}, seq |-> 0]
Image(d) == [exists |-> TRUE, users |-> d.users, seq |-> d.seq]
Owned(d) == { <<r.g, r.vault_id>> : r \in { x \in d.users : x.vault_id # NULL } }

\* database.sqlite as the earlier version of the service left it: users
\* without a vault_id, some of them already deleted
Phase1Files ==
    { [exists |-> TRUE,
       users |-> { [id |-> 1, username |-> "admin", role |-> "admin",
                    vault_id |-> NULL, g |-> 1],
                   [id |-> 2, username |-> "testuser", role |-> "user",
                    vault_id |-> NULL, g |-> 2] },
       seq |-> n] : n \in {2, 3} }

\* a new installation: the process is not running, database.sqlite is missing
IdInit ==
    /\ db = NoDb
    /\ dbFile = NoFile
    /\ ever = {}
    /\ born = 0
    /\ boots = 0
    /\ idOps = 0

\* a new installation, or an upgrade of the earlier version
IdAnyFileInit ==
    /\ db = NoDb
    /\ dbFile \in {NoFile} \cup Phase1Files
    /\ ever = {}
    /\ born = IF dbFile.exists THEN dbFile.seq ELSE 0
    /\ boots = 0
    /\ idOps = 0

\* initDatabase at the start of the process: load the file or create the
\* database, migrate, guard, seed, save
initDatabase ==
    /\ ~db.up
    /\ boots < MaxBoots
    /\ LET loaded == [up |-> TRUE, users |-> dbFile.users, seq |-> dbFile.seq]
           seeded == seedDatabase(assignMissingVaultIds(loaded), born)
       IN  /\ db' = seeded
           /\ dbFile' = Image(seeded)
           /\ ever' = ever \cup Owned(seeded)
           /\ born' = IF HasUser(loaded, "admin") THEN born ELSE born + 2
    /\ boots' = boots + 1
    /\ UNCHANGED idOps

\* the process stops: the database in memory is gone
Stop ==
    /\ db.up
    /\ db' = NoDb
    /\ UNCHANGED <<dbFile, ever, born, boots, idOps>>

\* createUser: INSERT, last_insert_rowid(), UPDATE vault_id, saveDatabase;
\* a username that exists fails on the UNIQUE constraint with no change
createUser(username, userRole) ==
    /\ db.up
    /\ idOps < MaxUserOps
    /\ idOps' = idOps + 1
    /\ IF HasUser(db, username)
         THEN UNCHANGED <<db, dbFile, ever, born>>
         ELSE LET e == InsertUser(db, username, userRole, born + 1)
                  userId == e.seq
                  created == SetVaultId(e, userId, vaultIdFor(userId))
              IN  /\ db' = created
                  /\ dbFile' = Image(created)
                  /\ ever' = ever \cup Owned(created)
                  /\ born' = born + 1
    /\ UNCHANGED boots

\* deleteUser after the Vault Service confirmed the delete-vault: the three
\* DELETEs, each saved; an admin, and a user whose vault deletion failed, stay
deleteUser(id) ==
    /\ db.up
    /\ idOps < MaxUserOps
    /\ idOps' = idOps + 1
    /\ \E vaultOk \in BOOLEAN :
         IF \/ \E r \in db.users : r.id = id /\ r.role = "admin"
            \/ (getVaultIdOf(db, id) # NULL /\ ~vaultOk)
           THEN UNCHANGED <<db, dbFile>>
           ELSE LET d == [db EXCEPT !.users = { r \in @ : r.id # id }]
                IN  /\ db' = d
                    /\ dbFile' = Image(d)
    /\ UNCHANGED <<ever, born, boots>>

IdNext ==
    \/ initDatabase
         /\ IdOnly
    \/ Stop
         /\ IdOnly
    \/ \E username \in NewUsernames, r \in Roles : createUser(username, r)
         /\ IdOnly
    \/ \E id \in 1..(MaxUserOps + 3) : deleteUser(id)
         /\ IdOnly

(***************************************************************************)
(* Properties of the users table.                                          *)
(***************************************************************************)
\* C27: every identity in the users table of the running service owns one
\* vault_id; an identity never held two vault_ids; and no two identities,
\* deleted ones included, ever held the same vault_id, across creations,
\* deletions and restarts.
C27_VaultIdNeverReused ==
    /\ db.up => \A r \in db.users : r.vault_id # NULL /\ <<r.g, r.vault_id>> \in ever
    /\ \A x \in ever, y \in ever : (x[1] = y[1]) <=> (x[2] = y[2])

C27_Witness ==
    /\ db.up
    /\ boots = 2
    /\ \E x \in ever, r \in db.users :
         /\ \A q \in db.users : q.g # x[1]
         /\ r.g > x[1]
         /\ r.vault_id = getVaultIdOf(db, r.id)

(***************************************************************************)
(* Specifications.                                                         *)
(***************************************************************************)
\* the Vault Service serving two clients at once
VaultStart == VaultInit /\ PidInit /\ BgInit /\ DelInit /\ VcInit /\ PageInit /\ IdInit /\ ValInit
SpecVault == VaultStart /\ [][VaultNext]_vars

\* the Vault Service serving one client, request after request
VaultSeqStart == VaultSeqInit /\ PidInit /\ BgInit /\ DelInit /\ VcInit /\ PageInit /\ IdInit /\ ValInit
SpecVaultSeq == VaultSeqStart /\ [][VaultSeqNext]_vars

\* two update-password requests racing after a write
UpdRaceStart == UpdRaceInit /\ PidInit /\ BgInit /\ DelInit /\ VcInit /\ PageInit /\ IdInit /\ ValInit
SpecUpdRace == UpdRaceStart /\ [][UpdRaceNext]_vars

\* writes and password updates racing while the database clock advances
ClockStart == UpdRaceInit /\ PidInit /\ BgInit /\ DelInit /\ VcInit /\ PageInit /\ IdInit /\ ValInit
SpecVaultClock == ClockStart /\ [][ClockNext]_vars

\* the Vault Service serving one client on rows an earlier write left
RepeatStart == UpdRaceInit /\ PidInit /\ BgInit /\ DelInit /\ VcInit /\ PageInit /\ IdInit /\ ValInit
SpecRepeat == RepeatStart /\ [][VaultSeqNext]_vars

\* writes and password updates of two clients racing
WriteRaceStart == UpdRaceInit /\ PidInit /\ BgInit /\ DelInit /\ VcInit /\ PageInit /\ IdInit /\ ValInit
SpecWriteRace == WriteRaceStart /\ [][WriteRaceNext]_vars

\* reads, password updates and deletes on keys with and without a record
MissingKeyStart == UpdRaceInit /\ PidInit /\ BgInit /\ DelInit /\ VcInit /\ PageInit /\ IdInit /\ ValInit
SpecMissingKey == MissingKeyStart /\ [][MissingKeyNext]_vars

\* the Vault Service serving the verification script
ScriptStart == ScriptInit /\ PidInit /\ BgInit /\ DelInit /\ VcInit /\ PageInit /\ IdInit /\ ValInit
SpecScript == ScriptStart /\ [][ScriptNext]_vars

\* the Vault Service receiving well-formed and malformed requests
ValidateStart == UpdRaceInit /\ PidInit /\ BgInit /\ DelInit /\ VcInit /\ PageInit /\ IdInit /\ ValInit
SpecValidate == ValidateStart /\ [][ValidateNext]_vars

\* Primary Identity serving the browser and delegated calls
PidStart == PidInit /\ VaultInit /\ BgInit /\ DelInit /\ VcInit /\ PageInit /\ IdInit /\ ValInit
SpecPID == PidStart /\ [][PidNext]_vars

\* Primary Identity serving delegated calls with the tokens of two users
PidCallsStart == PidTwoTokensInit /\ VaultInit /\ BgInit /\ DelInit /\ VcInit /\ PageInit /\ IdInit /\ ValInit
SpecPIDCalls == PidCallsStart /\ [][PidCallsNext]_vars

\* the background script serving pages, one message at a time, while users
\* log in and out of Primary Identity
BgStart == BgInit /\ PidSharedAppsInit /\ VaultInit /\ DelInit /\ VcInit /\ PageInit /\ IdInit /\ ValInit
SpecBg == BgStart /\ [][BgNext]_vars

\* the background script with two messages handled at once
SpecBgRace == BgStart /\ [][BgRaceNext]_vars

\* two getCredentials messages handled at once
BgGetRaceStart == BgInit /\ PidSharedAppsInit /\ VaultInit /\ DelInit /\ VcInit /\ PageInit /\ IdInit /\ ValInit
SpecBgGetRace == BgGetRaceStart /\ [][BgGetRaceNext]_vars

\* an admin deleting users while the seed writes are in flight
DelStart == DelInit /\ PidAdminInit /\ VaultInit /\ BgInit /\ VcInit /\ PageInit /\ IdInit /\ ValInit
SpecDel == DelStart /\ [][DelNext]_vars

\* an admin deleting users whose tokens are presented to the delegated API
DelCallsStart == DelInit /\ PidHeldTokenInit /\ VaultInit /\ BgInit /\ VcInit /\ PageInit /\ IdInit /\ ValInit
SpecDelCalls == DelCallsStart /\ [][DelCallsNext]_vars

\* the vault client calling the Vault Service, call after call
VcStart == VcInit /\ VaultInit /\ PidInit /\ BgInit /\ DelInit /\ PageInit /\ IdInit /\ ValInit
SpecVaultClient == VcStart /\ [][VcNext]_vars

\* the content script in one tab, page load after page load
PageStart == PageInit /\ VaultInit /\ PidInit /\ BgInit /\ DelInit /\ VcInit /\ IdInit /\ ValInit
SpecPage == PageStart /\ [][PageNext]_vars

\* the users table across creations, deletions and restarts
IdStart == IdAnyFileInit /\ VaultInit /\ PidInit /\ BgInit /\ DelInit /\ VcInit /\ PageInit /\ ValInit
SpecUsers == IdStart /\ [][IdNext]_vars

Init == VaultStart

Next == VaultNext \/ PidNext \/ BgRaceNext \/ DelNext \/ VcNext \/ PageNext \/ ClockNext \/ IdNext \/ ScriptNext \/ ValidateNext
          \/ WriteRaceNext \/ MissingKeyNext \/ BgGetRaceNext \/ DelCallsNext

Spec == Init /\ [][Next]_vars
====
